---- MODULE Spec2Model ----
(***************************************************************************)
(* A model of the WhatsApp spam filter (src/index.js): the rule engine     *)
(* detectSpamGroupInvite, the classifier isSpamMessage with its rate       *)
(* counter, and the message handler handleMessage with its admin check     *)
(* and delete request.                                                     *)
(*                                                                         *)
(* A JavaScript string is modelled as the sequence of its characters, each *)
(* a one-character string, so that toLowerCase, includes, split and the    *)
(* invite-link regex are computed character by character.                  *)
(***************************************************************************)
EXTENDS Integers, Sequences, FiniteSets, TLC

VARIABLES
    env,               \* process.env as read at module load (lines 9-46)
    CONFIG,            \* const CONFIG (lines 27-47), with the two AI clients (lines 50-63)
    checksThisMinute,  \* let checksThisMinute (line 88)
    lastIndex,         \* SPAM_PATTERNS.groupInviteRegex.lastIndex (lines 98, 149-151)
    handlers,          \* the in-flight invocations of handleMessage (lines 345-404)
    admitted,          \* history: AI calls admitted since the last timer reset
    input,             \* the text handed to detectSpamGroupInvite when it is run alone
    output,            \* the verdict it returned, or NoVerdict
    caught             \* history: the catch of handleMessage entered since its last call:
                       \* "deleteError" (line 394), "error" (line 401), or "none"

vars == <<env, CONFIG, checksThisMinute, lastIndex, handlers, admitted, input, output, caught>>

-----------------------------------------------------------------------------
(* Bounds of the model *)

\* The longest text, counted in fragments of FragmentPool, given to the rule engine.
MaxFrags == 3

\* The number of invocations of handleMessage that can be in flight at once.
NHandlers == 2

\* The number of messages of one text, sender and group handled in a row.
MaxCalls == 2

-----------------------------------------------------------------------------
(* Characters and the string primitives of JavaScript the code uses *)

UpperCase ==
    <<"A","B","C","D","E","F","G","H","I","J","K","L","M",
      "N","O","P","Q","R","S","T","U","V","W","X","Y","Z">>

LowerCase ==
    <<"a","b","c","d","e","f","g","h","i","j","k","l","m",
      "n","o","p","q","r","s","t","u","v","w","x","y","z">>

Digits ==
    {"0","1","2","3","4","5","6","7","8","9"}

UpperSet == {UpperCase[i] : i \in 1..26}

LowerSet == {LowerCase[i] : i \in 1..26}

\* Character.toLowerCase on the ASCII range.
lowerChar(c) ==
    IF c \in UpperSet
    THEN LowerCase[CHOOSE i \in 1..26 : UpperCase[i] = c]
    ELSE c

\* A variant of toLowerCase that leaves the text as it is.
toLowerCaseOmitted(s) ==
    s

\* String.prototype.toLowerCase
toLowerCase(s) ==
    [i \in 1..Len(s) |-> lowerChar(s[i])]

\* Whether sub occurs in s at the 0-based offset i.
occursAt(s, sub, i) ==
    /\ i + Len(sub) <= Len(s)
    /\ \A j \in 1..Len(sub) : s[i + j] = sub[j]

\* String.prototype.includes
includes(s, sub) ==
    \E i \in 0..(Len(s) - Len(sub)) : occursAt(s, sub, i)

\* Array.prototype.join
RECURSIVE join(_, _)
join(seq, sep) ==
    IF seq = <<>> THEN <<>>
    ELSE IF Len(seq) = 1 THEN seq[1]
    ELSE seq[1] \o sep \o join(Tail(seq), sep)

\* Array.prototype.slice(0, n)
slice0(seq, n) ==
    SubSeq(seq, 1, IF Len(seq) < n THEN Len(seq) ELSE n)

-----------------------------------------------------------------------------
(* SPAM_PATTERNS (lines 96-139) *)

\* The literal prefix of groupInviteRegex: chat\.whatsapp\.com\/
InvitePrefix ==
    <<"c","h","a","t",".","w","h","a","t","s","a","p","p",".","c","o","m","/">>

\* The {20,} of groupInviteRegex: the least number of code characters.
MinInviteCode == 20

\* The class [A-Za-z0-9] of groupInviteRegex.
isInviteCodeChar(c) ==
    c \in UpperSet \/ c \in LowerSet \/ c \in Digits

\* The number of consecutive code characters of s from the 0-based offset i on
\* (the greedy quantifier takes them all).
RECURSIVE codeRun(_, _)
codeRun(s, i) ==
    IF i < Len(s) /\ isInviteCodeChar(s[i + 1]) THEN 1 + codeRun(s, i + 1) ELSE 0

\* Whether groupInviteRegex matches s starting at the 0-based offset i. The i flag
\* makes the literal prefix case-insensitive.
inviteMatchAt(s, i) ==
    /\ i + Len(InvitePrefix) <= Len(s)
    /\ \A j \in 1..Len(InvitePrefix) : lowerChar(s[i + j]) = InvitePrefix[j]
    /\ codeRun(s, i + Len(InvitePrefix)) >= MinInviteCode

\* groupInviteRegex.test(s) of a regex with the g flag whose lastIndex is li:
\* the search starts at li; a match leaves lastIndex at the end of the match,
\* a failure leaves it at 0.
groupInviteRegexTest(s, li) ==
    LET starts == {i \in li..Len(s) : inviteMatchAt(s, i)}
    IN  IF li > Len(s) \/ starts = {}
        THEN [matched |-> FALSE, lastIndex |-> 0]
        ELSE LET first == CHOOSE i \in starts : \A k \in starts : i <= k
             IN  [matched |-> TRUE,
                  lastIndex |-> first + Len(InvitePrefix)
                                + codeRun(s, first + Len(InvitePrefix))]

spamGroupKeywords ==
    << <<"t","r","a","d","i","n","g">>,   \* trading
       <<"f","o","r","e","x">>,   \* forex
       <<"f","x"," ","s","i","g","n","a","l">>,   \* fx signal
       <<"t","r","a","d","e"," ","s","i","g","n","a","l">>,   \* trade signal
       <<"p","i","p">>,   \* pip
       <<"l","o","t"," ","s","i","z","e">>,   \* lot size
       <<"f","o","r","e","x"," ","v","i","p">>,   \* forex vip
       <<"t","r","a","d","i","n","g"," ","v","i","p">>,   \* trading vip
       <<"p","r","o","f","i","t"," ","s","i","g","n","a","l">>,   \* profit signal
       <<"f","r","e","e"," ","s","i","g","n","a","l">>,   \* free signal
       <<"c","r","y","p","t","o">>,   \* crypto
       <<"b","i","t","c","o","i","n">>,   \* bitcoin
       <<"b","t","c">>,   \* btc
       <<"e","t","h">>,   \* eth
       <<"b","i","n","a","n","c","e">>,   \* binance
       <<"c","o","i","n","b","a","s","e">>,   \* coinbase
       <<"n","f","t">>,   \* nft
       <<"t","o","k","e","n">>,   \* token
       <<"a","i","r","d","r","o","p">>,   \* airdrop
       <<"p","u","m","p">>,   \* pump
       <<"m","o","o","n","s","h","o","t">>,   \* moonshot
       <<"1","0","0","x">>,   \* 100x
       <<"1","0","0","0","x">>,   \* 1000x
       <<"c","r","y","p","t","o"," ","v","i","p">>,   \* crypto vip
       <<"b","i","t","c","o","i","n"," ","s","i","g","n","a","l">>,   \* bitcoin signal
       <<"c","r","y","p","t","o"," ","s","i","g","n","a","l">>,   \* crypto signal
       <<"i","n","v","e","s","t","m","e","n","t">>,   \* investment
       <<"i","n","v","e","s","t"," ","n","o","w">>,   \* invest now
       <<"g","u","a","r","a","n","t","e","e","d"," ","p","r","o","f","i","t">>,   \* guaranteed profit
       <<"d","a","i","l","y"," ","p","r","o","f","i","t">>,   \* daily profit
       <<"p","a","s","s","i","v","e"," ","i","n","c","o","m","e">>,   \* passive income
       <<"f","i","n","a","n","c","i","a","l"," ","f","r","e","e","d","o","m">>,   \* financial freedom
       <<"g","e","t"," ","r","i","c","h">>,   \* get rich
       <<"m","a","k","e"," ","m","o","n","e","y">>,   \* make money
       <<"e","a","r","n"," ","m","o","n","e","y">>,   \* earn money
       <<"i","n","c","o","m","e"," ","o","p","p","o","r","t","u","n","i","t","y">>,   \* income opportunity
       <<"p","r","o","f","i","t"," ","g","u","a","r","a","n","t","e","e","d">>,   \* profit guaranteed
       <<"t","r","a","i","n","i","n","g">>,   \* training
       <<"c","o","u","r","s","e">>,   \* course
       <<"m","a","s","t","e","r","c","l","a","s","s">>,   \* masterclass
       <<"w","e","b","i","n","a","r">>,   \* webinar
       <<"f","r","e","e"," ","c","l","a","s","s">>,   \* free class
       <<"l","e","a","r","n"," ","t","r","a","d","i","n","g">>,   \* learn trading
       <<"t","r","a","d","i","n","g"," ","c","o","u","r","s","e">>,   \* trading course
       <<"f","o","r","e","x"," ","c","o","u","r","s","e">>,   \* forex course
       <<"c","r","y","p","t","o"," ","c","o","u","r","s","e">>,   \* crypto course
       <<"m","e","n","t","o","r","s","h","i","p">>,   \* mentorship
       <<"c","o","a","c","h","i","n","g">>,   \* coaching
       <<"a","c","a","d","e","m","y">>,   \* academy
       <<"m","l","m">>,   \* mlm
       <<"n","e","t","w","o","r","k"," ","m","a","r","k","e","t","i","n","g">>,   \* network marketing
       <<"r","e","f","e","r","r","a","l"," ","b","o","n","u","s">>,   \* referral bonus
       <<"j","o","i","n"," ","m","y"," ","t","e","a","m">>,   \* join my team
       <<"b","u","s","i","n","e","s","s"," ","o","p","p","o","r","t","u","n","i","t","y">>,   \* business opportunity
       <<"w","o","r","k"," ","f","r","o","m"," ","h","o","m","e">>,   \* work from home
       <<"b","e"," ","y","o","u","r"," ","o","w","n"," ","b","o","s","s">>,   \* be your own boss
       <<"b","e","t","t","i","n","g">>,   \* betting
       <<"c","a","s","i","n","o">>,   \* casino
       <<"g","a","m","b","l","i","n","g">>,   \* gambling
       <<"s","l","o","t">>,   \* slot
       <<"j","a","c","k","p","o","t">>,   \* jackpot
       <<"l","u","c","k","y"," ","d","r","a","w">>,   \* lucky draw
       <<"d","a","t","i","n","g">>,   \* dating
       <<"s","i","n","g","l","e","s">>,   \* singles
       <<"h","o","o","k","u","p">>,   \* hookup
       <<"a","d","u","l","t">>,   \* adult
       <<"1","8","+">> >>   \* 18+

highConfidenceSpam ==
    << <<"j","o","i","n"," ","m","y"," ","t","r","a","d","i","n","g"," ","g","r","o","u","p">>,   \* join my trading group
       <<"j","o","i","n"," ","m","y"," ","c","r","y","p","t","o"," ","g","r","o","u","p">>,   \* join my crypto group
       <<"j","o","i","n"," ","m","y"," ","f","o","r","e","x"," ","g","r","o","u","p">>,   \* join my forex group
       <<"v","i","p"," ","s","i","g","n","a","l"," ","g","r","o","u","p">>,   \* vip signal group
       <<"f","r","e","e"," ","t","r","a","d","i","n","g"," ","s","i","g","n","a","l","s">>,   \* free trading signals
       <<"g","u","a","r","a","n","t","e","e","d"," ","r","e","t","u","r","n","s">>,   \* guaranteed returns
       <<"d","o","u","b","l","e"," ","y","o","u","r"," ","m","o","n","e","y">>,   \* double your money
       <<"1","0","0","%"," ","p","r","o","f","i","t">>,   \* 100% profit
       <<"j","o","i","n"," ","a","n","d"," ","e","a","r","n">>,   \* join and earn
       <<"c","l","i","c","k"," ","l","i","n","k"," ","t","o"," ","j","o","i","n">> >>   \* click link to join

-----------------------------------------------------------------------------
(* The reason texts of detectSpamGroupInvite (lines 159, 174, 182, 196, 200) *)

ReasonHighConfidence ==
    <<"H","i","g","h","-","c","o","n","f","i","d","e","n","c","e"," ","s","p","a","m"," ","p","h","r","a","s","e",":"," ","\"">>

Quote ==
    <<"\"">>

ReasonInviteKeywords ==
    <<"G","r","o","u","p"," ","i","n","v","i","t","e"," ","w","i","t","h"," ","s","p","a","m"," ","k","e","y","w","o","r","d","s",":"," ">>

ReasonInviteKeyword ==
    <<"G","r","o","u","p"," ","i","n","v","i","t","e"," ","w","i","t","h"," ","s","u","s","p","i","c","i","o","u","s"," ","k","e","y","w","o","r","d",":"," ">>

ReasonMultiple ==
    <<"M","u","l","t","i","p","l","e"," ","s","p","a","m"," ","i","n","d","i","c","a","t","o","r","s",":"," ">>

ReasonNoPatterns ==
    <<"N","o"," ","s","p","a","m"," ","p","a","t","t","e","r","n","s"," ","d","e","t","e","c","t","e","d">>

CommaSpace ==
    <<","," ">>

-----------------------------------------------------------------------------
(* JavaScript values: a verdict's fields are whatever the code puts there *)

JsUndefined ==
    [type |-> "undefined", bool |-> FALSE, num |-> 0, str |-> <<>>]

JsBool(b) ==
    [type |-> "boolean", bool |-> b, num |-> 0, str |-> <<>>]

JsNum(n) ==
    [type |-> "number", bool |-> FALSE, num |-> n, str |-> <<>>]

JsStr(s) ==
    [type |-> "string", bool |-> FALSE, num |-> 0, str |-> s]

\* ToBoolean
truthy(v) ==
    CASE v.type = "boolean" -> v.bool
      [] v.type = "number" -> v.num # 0
      [] v.type = "string" -> v.str # <<>>
      [] OTHER -> FALSE

-----------------------------------------------------------------------------
(* detectSpamGroupInvite (lines 145-201) *)

\* An object literal { isSpam, confidence, reason } of a boolean, a number and a string.
Verdict(isSpam, confidence, reason) ==
    [isSpam |-> JsBool(isSpam), confidence |-> JsNum(confidence), reason |-> JsStr(reason)]

\* No verdict yet.
NoVerdict ==
    [isSpam |-> JsUndefined, confidence |-> JsUndefined, reason |-> JsUndefined]

\* The 0-based offsets at which sub occurs in s.
occurrences(s, sub) ==
    {i \in 0..(Len(s) - Len(sub)) : occursAt(s, sub, i)}

\* A variant of matchedKeywords that lists a keyword once for each place it
\* occurs at.
RECURSIVE keywordsPerOccurrenceFrom(_, _)
keywordsPerOccurrenceFrom(lowerMessage, k) ==
    IF k > Len(spamGroupKeywords) THEN <<>>
    ELSE LET keyword == spamGroupKeywords[k]
             times == Cardinality(occurrences(lowerMessage, toLowerCase(keyword)))
         IN  [i \in 1..times |-> keyword] \o keywordsPerOccurrenceFrom(lowerMessage, k + 1)

matchedKeywordsPerOccurrence(lowerMessage) ==
    keywordsPerOccurrenceFrom(lowerMessage, 1)

\* SPAM_PATTERNS.spamGroupKeywords.filter(keyword =>
\*     lowerMessage.includes(keyword.toLowerCase()))          (lines 166-168, 188-190)
matchedKeywords(lowerMessage) ==
    SelectSeq(spamGroupKeywords,
              LAMBDA keyword : includes(lowerMessage, toLowerCase(keyword)))

\* The phrases of highConfidenceSpam found in lowerMessage, in list order; the
\* for loop of lines 154-162 returns on the first of them.
matchedPhrases(lowerMessage) ==
    SelectSeq(highConfidenceSpam, LAMBDA phrase : includes(lowerMessage, phrase))

\* A variant of firedRule that looks at the invite link before the phrases.
firedRuleInviteFirst(hasPhrase, hasGroupInvite, n) ==
    IF hasGroupInvite /\ n >= 2 THEN "several"
    ELSE IF hasGroupInvite /\ n = 1 THEN "one"
    ELSE IF hasPhrase THEN "phrase"
    ELSE IF n >= 3 THEN "many"
    ELSE "none"

\* A variant of firedRule whose density rule needs more than 3 keywords.
firedRuleManyAbove3(hasPhrase, hasGroupInvite, n) ==
    IF hasPhrase THEN "phrase"
    ELSE IF hasGroupInvite /\ n >= 2 THEN "several"
    ELSE IF hasGroupInvite /\ n = 1 THEN "one"
    ELSE IF n > 3 THEN "many"
    ELSE "none"

\* The rule of detectSpamGroupInvite that returns, given whether a phrase matched
\* (line 155), whether the invite regex matched (line 165) and the number n of
\* matched keywords (lines 170, 178, 192): the first one satisfied, in code order.
firedRule(hasPhrase, hasGroupInvite, n) ==
    IF hasPhrase THEN "phrase"
    ELSE IF hasGroupInvite /\ n >= 2 THEN "several"
    ELSE IF hasGroupInvite /\ n = 1 THEN "one"
    ELSE IF n >= 3 THEN "many"
    ELSE "none"

\* A variant of resetLastIndex that leaves lastIndex where test() put it.
resetLastIndexOmitted(li) ==
    li

\* SPAM_PATTERNS.groupInviteRegex.lastIndex = 0 (line 151), li being the
\* lastIndex that test() left.
resetLastIndex(li) ==
    0

\* The verdict of detectSpamGroupInvite(message) when groupInviteRegex.lastIndex
\* is li at the call, and the lastIndex the call leaves behind (lines 149-151).
detectSpamGroupInvite(message, li) ==
    LET lowerMessage == toLowerCase(message)
        test == groupInviteRegexTest(message, li)
        hasGroupInvite == test.matched
        phrases == matchedPhrases(lowerMessage)
        keywords == matchedKeywords(lowerMessage)
        rule == firedRule(phrases # <<>>, hasGroupInvite, Len(keywords))
        result ==
            CASE rule = "phrase" ->
                     Verdict(TRUE, 95, ReasonHighConfidence \o phrases[1] \o Quote)
              [] rule = "several" ->
                     Verdict(TRUE, 90,
                             ReasonInviteKeywords \o join(slice0(keywords, 3), CommaSpace))
              [] rule = "one" ->
                     Verdict(TRUE, 75, ReasonInviteKeyword \o keywords[1])
              [] rule = "many" ->
                     Verdict(TRUE, 80,
                             ReasonMultiple \o join(slice0(keywords, 3), CommaSpace))
              [] OTHER ->
                     Verdict(FALSE, 0, ReasonNoPatterns)
    IN  [result |-> result, lastIndex |-> resetLastIndex(test.lastIndex)]

-----------------------------------------------------------------------------
(* Message texts *)

\* The example texts of the specification's section 8.
TextJoinTrading ==
    \* Join my trading group https://chat.platform.com/AbCdEfGhIj1234567890 crypto signal guaranteed profit
    <<"J","o","i","n"," ","m","y"," ","t","r","a","d","i","n","g"," ","g","r","o","u","p"," ","h","t","t","p","s",":","/","/","c","h","a","t",".","p","l","a","t","f","o","r","m",".","c","o","m","/","A","b","C","d","E","f","G","h","I","j","1","2","3","4","5","6","7","8","9","0"," ","c","r","y","p","t","o"," ","s","i","g","n","a","l"," ","g","u","a","r","a","n","t","e","e","d"," ","p","r","o","f","i","t">>

TextJoinTradingWhatsApp ==
    \* The same text with the invite link of the platform the regex names.
    <<"J","o","i","n"," ","m","y"," ","t","r","a","d","i","n","g"," ","g","r","o","u","p"," ","h","t","t","p","s",":","/","/","c","h","a","t",".","w","h","a","t","s","a","p","p",".","c","o","m","/","A","b","C","d","E","f","G","h","I","j","1","2","3","4","5","6","7","8","9","0"," ","c","r","y","p","t","o"," ","s","i","g","n","a","l"," ","g","u","a","r","a","n","t","e","e","d"," ","p","r","o","f","i","t">>

TextTradingOpportunity ==
    \* Check out this trading opportunity
    <<"C","h","e","c","k"," ","o","u","t"," ","t","h","i","s"," ","t","r","a","d","i","n","g"," ","o","p","p","o","r","t","u","n","i","t","y">>

TextGame ==
    \* Hey, did you see the game last night?
    <<"H","e","y",","," ","d","i","d"," ","y","o","u"," ","s","e","e"," ","t","h","e"," ","g","a","m","e"," ","l","a","s","t"," ","n","i","g","h","t","?">>

\* The pieces the longer texts are put together from: high-confidence phrases in
\* mixed case, an invite link, a link whose code is one character short,
\* vocabulary terms and plain words.
FragmentPool ==
    << <<"J","o","i","n"," ","M","y"," ","T","r","a","d","i","n","g"," ","G","r","o","u","p"," ">>,
       <<"h","t","t","p","s",":","/","/","C","h","a","t",".","W","h","a","t","s","A","p","p",".","c","o","m","/","A","b","C","d","E","f","G","h","I","j","1","2","3","4","5","6","7","8","9","0"," ">>,
       <<"c","h","a","t",".","w","h","a","t","s","a","p","p",".","c","o","m","/","A","b","C","d","E","f","G","h","I","j","1","2","3","4","5","6","7","8","9"," ">>,
       <<"c","r","y","p","t","o"," ">>,
       <<"F","o","r","e","x"," ">>,
       <<"c","a","s","i","n","o"," ">>,
       <<"h","e","l","l","o"," ","t","h","e","r","e"," ">>,
       <<"D","o","u","b","l","e"," ","Y","o","u","r"," ","M","o","n","e","y"," ">> >>

RECURSIVE concatAll(_)
concatAll(seqs) ==
    IF seqs = <<>> THEN <<>> ELSE Head(seqs) \o concatAll(Tail(seqs))

\* Every text of at most MaxFrags fragments, and the example texts.
Texts ==
    {concatAll([i \in DOMAIN pick |-> FragmentPool[pick[i]]]) :
        pick \in UNION {[1..n -> 1..Len(FragmentPool)] : n \in 0..MaxFrags}}
    \cup {TextJoinTrading, TextJoinTradingWhatsApp, TextTradingOpportunity, TextGame}

-----------------------------------------------------------------------------
(* Configuration read from the environment at module load (lines 9-63) *)

\* The value of an environment variable that is not set.
Undefined ==
    <<"undefined">>

StrAuto ==
    <<"a","u","t","o">>

StrAnthropic ==
    <<"a","n","t","h","r","o","p","i","c">>

StrGemini ==
    <<"g","e","m","i","n","i">>

StrTrue ==
    <<"t","r","u","e">>

StrFalse ==
    <<"f","a","l","s","e">>

\* String.prototype.split(sep) for a one-character separator.
RECURSIVE split(_, _)
split(s, sep) ==
    IF \A i \in 1..Len(s) : s[i] # sep THEN <<s>>
    ELSE LET k == CHOOSE i \in 1..Len(s) : s[i] = sep /\ \A j \in 1..(i - 1) : s[j] # sep
         IN  <<SubSeq(s, 1, k - 1)>> \o split(SubSeq(s, k + 1, Len(s)), sep)

\* process.env.X?.split(",").filter(Boolean) || []              (lines 30, 43)
splitList(v) ==
    IF v = Undefined THEN <<>>
    ELSE SelectSeq(split(v, ","), LAMBDA item : item # <<>>)

\* !!process.env.X                                              (lines 10-11)
hasKey(v) ==
    v # Undefined /\ v # <<>>

\* process.env.AI_PROVIDER?.toLowerCase() || "auto"             (line 9)
AI_PROVIDER(e) ==
    IF e.AI_PROVIDER = Undefined \/ e.AI_PROVIDER = <<>>
    THEN StrAuto
    ELSE toLowerCase(e.AI_PROVIDER)

\* A variant of getActiveProvider whose automatic choice takes Gemini first.
getActiveProviderGeminiFirst(e) ==
    LET hasAnthropicKey == hasKey(e.ANTHROPIC_API_KEY)
        hasGeminiKey == hasKey(e.GEMINI_API_KEY)
    IN  IF AI_PROVIDER(e) = StrAnthropic /\ hasAnthropicKey THEN "anthropic"
        ELSE IF AI_PROVIDER(e) = StrGemini /\ hasGeminiKey THEN "gemini"
        ELSE IF AI_PROVIDER(e) = StrAuto /\ hasGeminiKey THEN "gemini"
        ELSE IF AI_PROVIDER(e) = StrAuto /\ hasAnthropicKey THEN "anthropic"
        ELSE "null"

\* getActiveProvider (lines 14-22); "null" is null.
getActiveProvider(e) ==
    LET hasAnthropicKey == hasKey(e.ANTHROPIC_API_KEY)
        hasGeminiKey == hasKey(e.GEMINI_API_KEY)
    IN  IF AI_PROVIDER(e) = StrAnthropic /\ hasAnthropicKey THEN "anthropic"
        ELSE IF AI_PROVIDER(e) = StrGemini /\ hasGeminiKey THEN "gemini"
        ELSE IF AI_PROVIDER(e) = StrAuto /\ hasAnthropicKey THEN "anthropic"
        ELSE IF AI_PROVIDER(e) = StrAuto /\ hasGeminiKey THEN "gemini"
        ELSE "null"

\* The DRY_RUN option (line 40).
dryRunOf(e) ==
    e.DRY_RUN = StrTrue

\* The USE_AI option (line 46).
useAIOf(e) ==
    e.USE_AI # StrFalse /\ getActiveProvider(e) # "null"

\* const CONFIG, and whether the clients anthropic and gemini were created.
configOf(e) ==
    [monitoredGroups    |-> splitList(e.MONITORED_GROUPS),
     aiProvider         |-> getActiveProvider(e),
     dryRun             |-> dryRunOf(e),
     customSpamKeywords |-> splitList(e.SPAM_KEYWORDS),
     useAI              |-> useAIOf(e),
     anthropic          |-> getActiveProvider(e) = "anthropic" /\ hasKey(e.ANTHROPIC_API_KEY),
     gemini             |-> getActiveProvider(e) = "gemini" /\ hasKey(e.GEMINI_API_KEY)]

\* const MAX_CHECKS_PER_MINUTE (line 87)
MAX_CHECKS_PER_MINUTE == 30

-----------------------------------------------------------------------------
(* The reply of the AI provider and its parsing (lines 302-319) *)

\* A reply is a sequence of tokens: an opening brace, a closing brace, a run of
\* text without braces, or one "key": value member of a JSON object.
LBrace ==
    [kind |-> "{", key |-> "", value |-> JsUndefined]

RBrace ==
    [kind |-> "}", key |-> "", value |-> JsUndefined]

Prose ==
    [kind |-> "text", key |-> "", value |-> JsUndefined]

Member(k, v) ==
    [kind |-> "member", key |-> k, value |-> v]

\* content.match(/\{[\s\S]*\}/): from the first opening brace to the last closing
\* brace (the quantifier is greedy); <<>> is null.
jsonMatch(content) ==
    LET opens == {i \in 1..Len(content) : content[i] = LBrace}
        closes == {i \in 1..Len(content) : content[i] = RBrace}
    IN  IF opens = {} \/ closes = {} THEN <<>>
        ELSE LET first == CHOOSE i \in opens : \A k \in opens : i <= k
                 last == CHOOSE i \in closes : \A k \in closes : i >= k
             IN  IF first < last THEN SubSeq(content, first, last) ELSE <<>>

\* A variant of jsonParses that accepts any text.
jsonParsesAnything(text) ==
    TRUE

\* Whether JSON.parse accepts the matched text: one object of members.
jsonParses(text) ==
    /\ Len(text) >= 2
    /\ text[1] = LBrace
    /\ text[Len(text)] = RBrace
    /\ \A i \in 2..(Len(text) - 1) : text[i].kind = "member"

\* result.<key> of the parsed object: the last member of that key, or undefined.
property(text, k) ==
    LET at == {i \in 2..(Len(text) - 1) : text[i].key = k}
    IN  IF at = {} THEN JsUndefined
        ELSE text[CHOOSE i \in at : \A j \in at : i >= j].value

\* The decimal digits in the order of their values.
DecimalDigits ==
    <<"0","1","2","3","4","5","6","7","8","9">>

\* The value of a string of decimal digits.
RECURSIVE digitsValue(_)
digitsValue(s) ==
    IF s = <<>> THEN 0
    ELSE 10 * digitsValue(SubSeq(s, 1, Len(s) - 1))
         + (CHOOSE d \in 0..9 : DecimalDigits[d + 1] = s[Len(s)])

\* ToNumber, as the comparison of line 312 applies it to its left operand: a
\* number is itself, true is 1 and false 0, a string of digits is its value and
\* the empty string 0; undefined and any other text are NaN.
toNumber(v) ==
    CASE v.type = "number" -> [nan |-> FALSE, num |-> v.num]
      [] v.type = "boolean" -> [nan |-> FALSE, num |-> IF v.bool THEN 1 ELSE 0]
      [] v.type = "string" /\ (\A i \in 1..Len(v.str) : v.str[i] \in Digits) ->
             [nan |-> FALSE, num |-> digitsValue(v.str)]
      [] OTHER -> [nan |-> TRUE, num |-> 0]

\* A variant of jsGeq that compares with > .
jsGt(v, n) ==
    ~toNumber(v).nan /\ toNumber(v).num > n

\* v >= n for a number n; a comparison with NaN is false.
jsGeq(v, n) ==
    ~toNumber(v).nan /\ toNumber(v).num >= n

\* a && b
jsAnd(a, b) ==
    IF truthy(a) THEN b ELSE a

\* const AI threshold of line 312
AI_MIN_CONFIDENCE == 70

ReasonBlockedKeyword ==
    <<"C","o","n","t","a","i","n","s"," ","b","l","o","c","k","e","d"," ","k","e","y","w","o","r","d",":"," ">>

ReasonRateLimited ==
    <<"R","a","t","e"," ","l","i","m","i","t","e","d"," ","-"," ","u","s","i","n","g"," ","r","u","l","e","-","b","a","s","e","d"," ","o","n","l","y">>

ReasonParseError ==
    <<"P","a","r","s","e"," ","e","r","r","o","r">>

ReasonApiError ==
    <<"A","P","I"," ","e","r","r","o","r">>

\* The return statement of lines 303-319 that the provider's reply leads to: no
\* match (line 306), the object built from the parsed reply (line 311), or
\* JSON.parse threw (line 318).
parsePath(content) ==
    IF jsonMatch(content) = <<>> THEN "noJson"
    ELSE IF ~jsonParses(jsonMatch(content)) THEN "badJson"
    ELSE "parsed"

\* A variant of parseReply that takes isSpam from the reply as it is.
parseReplyWithoutThreshold(content) ==
    LET match == jsonMatch(content)
    IN  IF match = <<>> THEN Verdict(FALSE, 0, ReasonParseError)
        ELSE IF ~jsonParses(match) THEN Verdict(FALSE, 0, ReasonParseError)
        ELSE [isSpam     |-> property(match, "isSpam"),
              reason     |-> property(match, "reason"),
              confidence |-> property(match, "confidence")]

\* The verdict isSpamMessage makes of the provider's reply (lines 303-319).
parseReply(content) ==
    LET match == jsonMatch(content)
    IN  IF match = <<>> THEN Verdict(FALSE, 0, ReasonParseError)
        ELSE IF ~jsonParses(match) THEN Verdict(FALSE, 0, ReasonParseError)
        ELSE [isSpam     |-> jsAnd(property(match, "isSpam"),
                                   JsBool(jsGeq(property(match, "confidence"),
                                                AI_MIN_CONFIDENCE))),
              reason     |-> property(match, "reason"),
              confidence |-> property(match, "confidence")]

-----------------------------------------------------------------------------
(* Messages, chats and environments the handler is run on *)

GroupOne ==
    <<"1","@","g",".","u","s">>

GroupTwo ==
    <<"2","@","g",".","u","s">>

PrivateChat ==
    <<"7","@","c",".","u","s">>

\* The chats message.getChat() resolves to.
Chats ==
    {[isGroup |-> TRUE, id |-> GroupOne],
     [isGroup |-> TRUE, id |-> GroupTwo],
     [isGroup |-> FALSE, id |-> PrivateChat]}

\* SPAM_KEYWORDS as an operator sets it: two keywords and an empty item.
EnvKeywords ==
    \* Casino,,WIN big
    <<"C","a","s","i","n","o",",",",","W","I","N"," ","b","i","g">>

TextEmpty ==
    <<>>

TextBlank ==
    <<" ", " ">>

TextKeyword ==
    \* win BIG today
    <<"w","i","n"," ","B","I","G"," ","t","o","d","a","y">>

TextKeywordAndPhrase ==
    \* Join my trading group at the CASINO chat.whatsapp.com/AbCdEfGhIj1234567890
    <<"J","o","i","n"," ","m","y"," ","t","r","a","d","i","n","g"," ","g","r","o","u","p"," ","a","t"," ","t","h","e"," ","C","A","S","I","N","O"," ","c","h","a","t",".","w","h","a","t","s","a","p","p",".","c","o","m","/","A","b","C","d","E","f","G","h","I","j","1","2","3","4","5","6","7","8","9","0">>

TextInviteOneTerm ==
    \* forex tips chat.whatsapp.com/AbCdEfGhIj1234567890
    <<"f","o","r","e","x"," ","t","i","p","s"," ","c","h","a","t",".","w","h","a","t","s","a","p","p",".","c","o","m","/","A","b","C","d","E","f","G","h","I","j","1","2","3","4","5","6","7","8","9","0">>

TextThreeTerms ==
    \* Bitcoin and forex webinar tonight
    <<"B","i","t","c","o","i","n"," ","a","n","d"," ","f","o","r","e","x"," ","w","e","b","i","n","a","r"," ","t","o","n","i","g","h","t">>

\* The bodies of the messages handleMessage is run on, one message at a time.
Bodies ==
    {TextEmpty, TextBlank, TextKeyword, TextKeywordAndPhrase,
     TextJoinTrading, TextJoinTradingWhatsApp, TextInviteOneTerm, TextThreeTerms,
     TextTradingOpportunity, TextGame}

\* message: its body, message.fromMe and the chat getChat() resolves to.
Messages ==
    [body : Bodies, fromMe : BOOLEAN, chat : Chats]

\* The bodies of the messages handled concurrently: one that is filtered out, one
\* the rule engine decides and one that goes on to the AI layer.
ConcurrentBodies ==
    {TextBlank, TextJoinTrading, TextGame}

ConcurrentMessages ==
    [body : ConcurrentBodies, fromMe : BOOLEAN, chat : Chats]

\* The provider settings of the environment: no key; an Anthropic key alone; a
\* Gemini key with AI_PROVIDER naming Gemini; both keys with AI switched off.
AiEnvs ==
    {[AI_PROVIDER |-> Undefined, ANTHROPIC_API_KEY |-> Undefined,
      GEMINI_API_KEY |-> Undefined, USE_AI |-> Undefined],
     [AI_PROVIDER |-> Undefined, ANTHROPIC_API_KEY |-> <<"s","k">>,
      GEMINI_API_KEY |-> <<>>, USE_AI |-> StrTrue],
     [AI_PROVIDER |-> <<"G","e","m","i","n","i">>, ANTHROPIC_API_KEY |-> Undefined,
      GEMINI_API_KEY |-> <<"g","k">>, USE_AI |-> Undefined],
     [AI_PROVIDER |-> Undefined, ANTHROPIC_API_KEY |-> <<"s","k">>,
      GEMINI_API_KEY |-> <<"g","k">>, USE_AI |-> StrFalse]}

\* Every preference AI_PROVIDER can state (none, auto, each provider, in mixed
\* case, and a name the program does not know) with every presence of the keys.
ProviderEnvs ==
    [AI_PROVIDER       : {Undefined, StrAuto, <<"A","n","t","h","r","o","p","i","c">>,
                          StrGemini, <<"o","p","e","n","a","i">>},
     ANTHROPIC_API_KEY : {Undefined, <<"s","k">>},
     GEMINI_API_KEY    : {Undefined, <<"g","k">>},
     USE_AI            : {Undefined}]

\* The environments the program is started in: the provider settings of AiEnvs
\* with every other option, and those of ProviderEnvs with the other options
\* not set.
Envs ==
    {[AI_PROVIDER       |-> ai.AI_PROVIDER,
      ANTHROPIC_API_KEY |-> ai.ANTHROPIC_API_KEY,
      GEMINI_API_KEY    |-> ai.GEMINI_API_KEY,
      USE_AI            |-> ai.USE_AI,
      DRY_RUN           |-> dry,
      SPAM_KEYWORDS     |-> kw,
      MONITORED_GROUPS  |-> mon] :
        ai \in AiEnvs,
        dry \in {Undefined, StrTrue, StrFalse},
        kw \in {Undefined, EnvKeywords},
        mon \in {Undefined, GroupOne}}
    \cup
    {[AI_PROVIDER       |-> ai.AI_PROVIDER,
      ANTHROPIC_API_KEY |-> ai.ANTHROPIC_API_KEY,
      GEMINI_API_KEY    |-> ai.GEMINI_API_KEY,
      USE_AI            |-> ai.USE_AI,
      DRY_RUN           |-> Undefined,
      SPAM_KEYWORDS     |-> Undefined,
      MONITORED_GROUPS  |-> Undefined] :
        ai \in ProviderEnvs}

\* The environments of the concurrent runs: every provider setting and every
\* setting of DRY_RUN, one monitored group and no custom keyword.
ConcurrentEnvs ==
    {[AI_PROVIDER       |-> ai.AI_PROVIDER,
      ANTHROPIC_API_KEY |-> ai.ANTHROPIC_API_KEY,
      GEMINI_API_KEY    |-> ai.GEMINI_API_KEY,
      USE_AI            |-> ai.USE_AI,
      DRY_RUN           |-> dry,
      SPAM_KEYWORDS     |-> Undefined,
      MONITORED_GROUPS  |-> GroupOne] :
        ai \in AiEnvs,
        dry \in {Undefined, StrTrue, StrFalse}}

\* The environment with nothing set.
EmptyEnv ==
    [AI_PROVIDER |-> Undefined, ANTHROPIC_API_KEY |-> Undefined,
     GEMINI_API_KEY |-> Undefined, USE_AI |-> Undefined, DRY_RUN |-> Undefined,
     SPAM_KEYWORDS |-> Undefined, MONITORED_GROUPS |-> Undefined]

\* The replies of the provider: a verdict object alone, one in a code fence, one
\* below the threshold, a negative one, text without an object, no text at all,
\* braces around text that is no JSON, an empty object, an object whose isSpam
\* and confidence are strings and whose reason is missing, a verdict whose
\* confidence is 150, a verdict followed by text that holds a pair of braces,
\* and a verdict between text and text that holds an opening brace.
SpamReply(confidence) ==
    <<LBrace, Member("isSpam", JsBool(TRUE)), Member("confidence", JsNum(confidence)),
      Member("reason", JsStr(<<"a","d">>)), RBrace>>

AIReplies ==
    {SpamReply(95),
     <<Prose>> \o SpamReply(70) \o <<Prose>>,
     SpamReply(65),
     <<LBrace, Member("isSpam", JsBool(FALSE)), Member("confidence", JsNum(10)),
       Member("reason", JsStr(<<"o","k">>)), RBrace>>,
     <<Prose>>,
     <<>>,
     <<LBrace, Prose, RBrace>>,
     <<LBrace, RBrace>>,
     <<LBrace, Member("isSpam", JsStr(<<"y","e","s">>)),
       Member("confidence", JsStr(<<"8","0">>)), RBrace>>,
     SpamReply(150),
     SpamReply(95) \o <<Prose, LBrace, Prose, RBrace>>,
     <<Prose>> \o SpamReply(95) \o <<Prose, LBrace, Prose>>}

\* The replies of the provider in the concurrent runs.
ConcurrentReplies ==
    {SpamReply(95), <<Prose>>}

\* What isBotAdmin finds: reading chat.participants or client.info throws, find()
\* returns undefined (the bot is not listed), or it returns the bot's entry with
\* its isAdmin and isSuperAdmin flags.
Participants ==
    {[found |-> "throws", isAdmin |-> FALSE, isSuperAdmin |-> FALSE],
     [found |-> "undefined", isAdmin |-> FALSE, isSuperAdmin |-> FALSE]}
    \cup [found : {"entry"}, isAdmin : BOOLEAN, isSuperAdmin : BOOLEAN]

-----------------------------------------------------------------------------
(* isSpamMessage up to its provider call (lines 261-300) *)

\* detectSpamGroupInvite on each body with the regex at rest (lastIndex 0), computed
\* once: between calls lastIndex is 0 unless a call left it elsewhere.
ruleEngineAtRest ==
    [message \in Bodies \cup ConcurrentBodies |-> detectSpamGroupInvite(message, 0)]

\* The call detectSpamGroupInvite(message) of line 272.
callRuleEngine(message, li) ==
    IF li = 0 /\ message \in DOMAIN ruleEngineAtRest
    THEN ruleEngineAtRest[message]
    ELSE detectSpamGroupInvite(message, li)

\* A variant of matchedCustom for a classifier without the keyword loop.
matchedCustomSkipped(cfg, lowerMessage) ==
    <<>>

\* A variant of matchedCustom that compares the keyword as the operator wrote it.
matchedCustomAsWritten(cfg, lowerMessage) ==
    SelectSeq(cfg.customSpamKeywords, LAMBDA keyword : includes(lowerMessage, keyword))

\* The keywords of CONFIG.customSpamKeywords found in lowerMessage, in list order;
\* the for loop of lines 265-269 returns on the first of them.
matchedCustom(cfg, lowerMessage) ==
    SelectSeq(cfg.customSpamKeywords,
              LAMBDA keyword : includes(lowerMessage, toLowerCase(keyword)))

\* A variant of rateLimited for a gate that logs and goes on.
rateLimitedLogsOnly(checks) ==
    FALSE

\* A variant of rateLimited that refuses only above the ceiling.
rateLimitedAboveCeiling(checks) ==
    checks > MAX_CHECKS_PER_MINUTE

\* The rate gate of lines 284-288: whether a further AI call is refused.
rateLimited(checks) ==
    checks >= MAX_CHECKS_PER_MINUTE

\* A variant of aiUnavailable that looks only at the clients.
aiUnavailableNoClient(cfg) ==
    ~cfg.anthropic /\ ~cfg.gemini

\* Whether the AI layer is switched off (line 278).
aiUnavailable(cfg) ==
    ~cfg.useAI \/ (~cfg.anthropic /\ ~cfg.gemini)

\* isSpamMessage(message, ...) run from its start until it returns or suspends at
\* the provider call, with the counter at checks and the regex's lastIndex at li.
\* kind is "return" with the verdict returned, or "await" when a provider call was
\* issued; gate tells what the rate gate answered, if it was asked; path names
\* the return statement taken: "keyword" (line 267), "rule" (line 274), "aiOff"
\* (line 279), "rateLimited" (line 286), "noClient" (line 299).
isSpamMessage(message, cfg, checks, li) ==
    LET lowerMessage == toLowerCase(message)
        custom == matchedCustom(cfg, lowerMessage)
        rule == callRuleEngine(message, li)
        ruleBasedResult == rule.result
    IN  IF custom # <<>>
        THEN [kind |-> "return", gate |-> "none", path |-> "keyword",
              verdict |-> Verdict(TRUE, 100, ReasonBlockedKeyword \o custom[1]),
              checksThisMinute |-> checks, lastIndex |-> li]
        ELSE IF truthy(ruleBasedResult.isSpam)
        THEN [kind |-> "return", gate |-> "none", path |-> "rule",
              verdict |-> ruleBasedResult,
              checksThisMinute |-> checks, lastIndex |-> rule.lastIndex]
        ELSE IF aiUnavailable(cfg)
        THEN [kind |-> "return", gate |-> "none", path |-> "aiOff",
              verdict |-> ruleBasedResult,
              checksThisMinute |-> checks, lastIndex |-> rule.lastIndex]
        ELSE IF rateLimited(checks)
        THEN [kind |-> "return", gate |-> "denied", path |-> "rateLimited",
              verdict |-> Verdict(FALSE, 0, ReasonRateLimited),
              checksThisMinute |-> checks, lastIndex |-> rule.lastIndex]
        ELSE IF \/ cfg.aiProvider = "anthropic" /\ cfg.anthropic
                \/ cfg.aiProvider = "gemini" /\ cfg.gemini
        THEN [kind |-> "await", gate |-> "admitted", path |-> "none",
              verdict |-> NoVerdict,
              checksThisMinute |-> checks + 1, lastIndex |-> rule.lastIndex]
        ELSE [kind |-> "return", gate |-> "admitted", path |-> "noClient",
              verdict |-> ruleBasedResult,
              checksThisMinute |-> checks + 1, lastIndex |-> rule.lastIndex]

-----------------------------------------------------------------------------
(* handleMessage (lines 345-404) and isBotAdmin (lines 329-340) *)

\* No chat.
NoChat ==
    [isGroup |-> FALSE, id |-> <<>>]

\* An invocation that has returned, or has not started. Of a running one: body,
\* fromMe and chat are those of its message, spamCheck is the verdict of
\* isSpamMessage, gate and path what isSpamMessage did, content the provider's
\* reply once it has arrived, isAdmin the answer of isBotAdmin.
IdleHandler ==
    [pc |-> "idle", body |-> <<>>, fromMe |-> FALSE, chat |-> NoChat,
     spamCheck |-> NoVerdict, isAdmin |-> "unchecked", gate |-> "none",
     path |-> "none", content |-> <<>>]

Whitespace == {" ", "\t", "\n"}

\* String.prototype.trim
RECURSIVE trim(_)
trim(s) ==
    IF s # <<>> /\ Head(s) \in Whitespace THEN trim(Tail(s))
    ELSE IF s # <<>> /\ s[Len(s)] \in Whitespace THEN trim(SubSeq(s, 1, Len(s) - 1))
    ELSE s

\* Array.prototype.includes
arrayIncludes(seq, x) ==
    \E i \in 1..Len(seq) : seq[i] = x

\* A variant of passesFilters without the test of message.fromMe.
passesFiltersFromMe(cfg, message) ==
    /\ message.chat.isGroup
    /\ ~(Len(cfg.monitoredGroups) > 0 /\ ~arrayIncludes(cfg.monitoredGroups, message.chat.id))
    /\ ~(message.body = <<>> \/ trim(message.body) = <<>>)

\* The filters of lines 349-363: whether the message goes on to be classified.
passesFilters(cfg, message) ==
    /\ message.chat.isGroup
    /\ ~(Len(cfg.monitoredGroups) > 0 /\ ~arrayIncludes(cfg.monitoredGroups, message.chat.id))
    /\ ~message.fromMe
    /\ ~(message.body = <<>> \/ trim(message.body) = <<>>)

\* isBotAdmin (lines 329-340): botParticipant?.isAdmin ||
\* botParticipant?.isSuperAdmin || false, and false from the catch.
isBotAdmin(botParticipant) ==
    /\ botParticipant.found = "entry"
    /\ botParticipant.isAdmin \/ botParticipant.isSuperAdmin

\* A variant of requestsDelete that does not look at the admin check.
requestsDeleteUnchecked(cfg, isAdmin) ==
    ~cfg.dryRun

\* A variant of requestsDelete that does not look at dryRun.
requestsDeleteInDryRun(cfg, isAdmin) ==
    isAdmin

\* Whether handleMessage goes on to request the delete after the admin check
\* (lines 380-389).
requestsDelete(cfg, isAdmin) ==
    isAdmin /\ ~cfg.dryRun

\* handleMessage from the return of getChat() to its next suspension (lines
\* 348-372): a rejection of getChat() is caught at line 401; the filters return;
\* otherwise isSpamMessage runs up to its return or its provider call.
afterGetChat(h, message, chatResolves) ==
    IF ~chatResolves \/ ~passesFilters(CONFIG, message)
    THEN /\ handlers' = [handlers EXCEPT ![h] = IdleHandler]
         /\ caught' = IF chatResolves THEN "none" ELSE "error"
         /\ UNCHANGED <<checksThisMinute, lastIndex, admitted>>
    ELSE LET r == isSpamMessage(message.body, CONFIG, checksThisMinute, lastIndex)
         IN  /\ handlers' = [handlers EXCEPT ![h] =
                    [pc |-> IF r.kind = "await" THEN "ai" ELSE "spamCheck",
                     body |-> message.body, fromMe |-> message.fromMe,
                     chat |-> message.chat, spamCheck |-> r.verdict,
                     isAdmin |-> "unchecked", gate |-> r.gate,
                     path |-> r.path, content |-> <<>>]]
             /\ checksThisMinute' = r.checksThisMinute
             /\ lastIndex' = r.lastIndex
             /\ admitted' = IF r.gate = "admitted" THEN admitted + 1 ELSE admitted
             /\ caught' = "none"

\* A variant of HandleMessage for a client that hands over the next message
\* only when the handling of the one before has ended.
HandleMessageOneAtATime(h, message, chatResolves) ==
    /\ \A k \in DOMAIN handlers : handlers[k].pc = "idle"
    /\ afterGetChat(h, message, chatResolves)
    /\ UNCHANGED <<env, CONFIG, input, output>>

\* handleMessage(message) from its call to its first suspension after getChat().
\* The wait for getChat() reads and writes no shared state, so the arrival of the
\* message and the outcome of getChat() (chatResolves) are taken in one step
\* with what follows.
HandleMessage(h, message, chatResolves) ==
    /\ handlers[h].pc = "idle"
    /\ afterGetChat(h, message, chatResolves)
    /\ UNCHANGED <<env, CONFIG, input, output>>

\* The message_create event calls handleMessage(message) (line 447), which
\* suspends at message.getChat() (line 348).
MessageCreate(h, message) ==
    /\ handlers[h].pc = "idle"
    /\ handlers' = [handlers EXCEPT ![h] =
           [IdleHandler EXCEPT !.pc = "getChat", !.body = message.body,
                               !.fromMe = message.fromMe, !.chat = message.chat]]
    /\ caught' = "none"
    /\ UNCHANGED <<env, CONFIG, checksThisMinute, lastIndex, admitted, input, output>>

\* getChat() resolves with the chat of the message, or rejects.
GetChatReturns(h, chatResolves) ==
    /\ handlers[h].pc = "getChat"
    /\ afterGetChat(h, [body |-> handlers[h].body, fromMe |-> handlers[h].fromMe,
                        chat |-> handlers[h].chat], chatResolves)
    /\ UNCHANGED <<env, CONFIG, input, output>>

\* The provider call resolves with content; isSpamMessage parses it and returns.
ProviderReplies(h, content) ==
    /\ handlers[h].pc = "ai"
    /\ handlers' = [handlers EXCEPT ![h].pc = "spamCheck",
                                    ![h].spamCheck = parseReply(content),
                                    ![h].path = parsePath(content),
                                    ![h].content = content]
    /\ UNCHANGED <<env, CONFIG, checksThisMinute, lastIndex, admitted, input, output, caught>>

\* A variant of ProviderFails without the catch of lines 320-323: the rejection
\* leaves isSpamMessage and is caught by handleMessage at line 401.
ProviderFailsUncaught(h) ==
    /\ handlers[h].pc = "ai"
    /\ handlers' = [handlers EXCEPT ![h] = IdleHandler]
    /\ UNCHANGED <<env, CONFIG, checksThisMinute, lastIndex, admitted, input, output, caught>>

\* The provider call rejects; the catch of lines 320-323 returns.
ProviderFails(h) ==
    /\ handlers[h].pc = "ai"
    /\ handlers' = [handlers EXCEPT ![h].pc = "spamCheck",
                                    ![h].spamCheck = Verdict(FALSE, 0, ReasonApiError),
                                    ![h].path = "apiError"]
    /\ UNCHANGED <<env, CONFIG, checksThisMinute, lastIndex, admitted, input, output, caught>>

\* A variant of SpamCheckReturns that goes to the admin check whatever the
\* verdict.
SpamCheckReturnsUnchecked(h) ==
    /\ handlers[h].pc = "spamCheck"
    /\ handlers' = [handlers EXCEPT ![h].pc = "admin"]
    /\ UNCHANGED <<env, CONFIG, checksThisMinute, lastIndex, admitted, input, output, caught>>

\* handleMessage resumes with spamCheck (line 372): on spam it goes to the admin
\* check, otherwise it logs and returns.
SpamCheckReturns(h) ==
    /\ handlers[h].pc = "spamCheck"
    /\ handlers' = [handlers EXCEPT ![h] =
           IF truthy(handlers[h].spamCheck.isSpam)
           THEN [handlers[h] EXCEPT !.pc = "admin"]
           ELSE IdleHandler]
    /\ UNCHANGED <<env, CONFIG, checksThisMinute, lastIndex, admitted, input, output, caught>>

\* isBotAdmin(chat) returns (line 378); not admin: return; dry run: log and
\* return; otherwise message.delete(true) is requested (line 389).
AdminCheck(h, botParticipant) ==
    /\ handlers[h].pc = "admin"
    /\ LET isAdmin == isBotAdmin(botParticipant)
       IN  handlers' = [handlers EXCEPT ![h] =
               IF requestsDelete(CONFIG, isAdmin)
               THEN [handlers[h] EXCEPT !.pc = "delete",
                                        !.isAdmin = IF isAdmin THEN "true" ELSE "false"]
               ELSE IdleHandler]
    /\ UNCHANGED <<env, CONFIG, checksThisMinute, lastIndex, admitted, input, output, caught>>

\* A variant of DeleteReturns that requests the delete again when it failed.
DeleteReturnsRetrying(h, deleted) ==
    /\ handlers[h].pc = "delete"
    /\ deleted \in BOOLEAN
    /\ handlers' = IF deleted THEN [handlers EXCEPT ![h] = IdleHandler] ELSE handlers
    /\ caught' = IF deleted THEN caught ELSE "deleteError"
    /\ UNCHANGED <<env, CONFIG, checksThisMinute, lastIndex, admitted, input, output>>

\* message.delete(true) resolves or rejects (lines 389-396); a rejection is
\* caught and logged at lines 394-396; either way handleMessage returns.
DeleteReturns(h, deleted) ==
    /\ handlers[h].pc = "delete"
    /\ deleted \in BOOLEAN
    /\ handlers' = [handlers EXCEPT ![h] = IdleHandler]
    /\ caught' = IF deleted THEN caught ELSE "deleteError"
    /\ UNCHANGED <<env, CONFIG, checksThisMinute, lastIndex, admitted, input, output>>

\* A variant of ResetRateLimit for a timer that takes one call off the count.
ResetRateLimitByOne ==
    /\ checksThisMinute' = IF checksThisMinute > 0 THEN checksThisMinute - 1 ELSE 0
    /\ admitted' = IF admitted > 0 THEN admitted - 1 ELSE 0
    /\ UNCHANGED <<env, CONFIG, lastIndex, handlers, input, output, caught>>

\* The setInterval callback of lines 91-93.
ResetRateLimit ==
    /\ checksThisMinute' = 0
    /\ admitted' = 0
    /\ UNCHANGED <<env, CONFIG, lastIndex, handlers, input, output, caught>>

Init ==
    /\ env \in ConcurrentEnvs
    /\ CONFIG = configOf(env)
    /\ checksThisMinute = 0
    /\ lastIndex = 0
    /\ handlers = [h \in 1..NHandlers |-> IdleHandler]
    /\ admitted = 0
    /\ input = <<>>
    /\ output = NoVerdict
    /\ caught = "none"

\* Messages arrive while earlier ones are still being handled.
Next ==
    \/ \E h \in DOMAIN handlers, message \in ConcurrentMessages, chatResolves \in BOOLEAN :
           HandleMessage(h, message, chatResolves)
    \/ \E h \in DOMAIN handlers, content \in ConcurrentReplies : ProviderReplies(h, content)
    \/ \E h \in DOMAIN handlers : ProviderFails(h)
    \/ \E h \in DOMAIN handlers : SpamCheckReturns(h)
    \/ \E h \in DOMAIN handlers, botParticipant \in Participants :
           AdminCheck(h, botParticipant)
    \/ \E h \in DOMAIN handlers, deleted \in BOOLEAN : DeleteReturns(h, deleted)
    \/ ResetRateLimit

Spec == Init /\ [][Next]_vars

-----------------------------------------------------------------------------
(* One message at a time: each message arrives after the one before it was handled, *)
(* and the wait for getChat() is a step of its own                                  *)

InitSeq ==
    /\ env \in Envs
    /\ CONFIG = configOf(env)
    /\ checksThisMinute = 0
    /\ lastIndex = 0
    /\ handlers = [h \in {1} |-> IdleHandler]
    /\ admitted = 0
    /\ input = <<>>
    /\ output = NoVerdict
    /\ caught = "none"

NextSeq ==
    \/ \E message \in Messages : MessageCreate(1, message)
    \/ \E chatResolves \in BOOLEAN : GetChatReturns(1, chatResolves)
    \/ \E content \in AIReplies : ProviderReplies(1, content)
    \/ ProviderFails(1)
    \/ SpamCheckReturns(1)
    \/ \E botParticipant \in Participants : AdminCheck(1, botParticipant)
    \/ \E deleted \in BOOLEAN : DeleteReturns(1, deleted)
    \/ ResetRateLimit

SpecSeq == InitSeq /\ [][NextSeq]_vars

\* What the event loop and the WhatsApp client are taken to guarantee: getChat(),
\* isBotAdmin() and delete() settle, and a function whose awaited promise has
\* settled is resumed. Nothing in lines 234-255 and 290-300 bounds the wait for
\* the provider (no timeout, no race against a timer), so the provider's reply
\* and failure carry no fairness.
FairSeq ==
    /\ WF_vars(\E chatResolves \in BOOLEAN : GetChatReturns(1, chatResolves))
    /\ WF_vars(SpamCheckReturns(1))
    /\ WF_vars(\E botParticipant \in Participants : AdminCheck(1, botParticipant))
    /\ WF_vars(\E deleted \in BOOLEAN : DeleteReturns(1, deleted))

\* One message at a time, with every step taken that the code's scheduling
\* guarantees.
SpecSeqFair == InitSeq /\ [][NextSeq]_vars /\ FairSeq

-----------------------------------------------------------------------------
(* Messages of one text, sender and group, handled one after the other *)

\* The message of body input that a member sends to the first group.
sameMessage ==
    [body |-> input, fromMe |-> FALSE, chat |-> [isGroup |-> TRUE, id |-> GroupOne]]

\* handleMessage is called with that message for the h-th time, isSpamMessage
\* having returned on the times before; its verdict is kept at line 372.
SameMessageAgain(h) ==
    /\ \A k \in 1..(h - 1) : handlers[k].pc = "spamCheck"
    /\ HandleMessage(h, sameMessage, TRUE)

\* The counter is anywhere in its window when the first of the messages arrives.
InitTwice ==
    /\ env \in Envs
    /\ CONFIG = configOf(env)
    /\ checksThisMinute \in {0, MAX_CHECKS_PER_MINUTE - 1, MAX_CHECKS_PER_MINUTE}
    /\ lastIndex = 0
    /\ handlers = [h \in 1..MaxCalls |-> IdleHandler]
    /\ admitted = checksThisMinute
    /\ input \in Bodies
    /\ output = NoVerdict
    /\ caught = "none"

NextTwice ==
    \/ \E h \in DOMAIN handlers : SameMessageAgain(h)
    \/ \E h \in DOMAIN handlers, content \in AIReplies : ProviderReplies(h, content)
    \/ \E h \in DOMAIN handlers : ProviderFails(h)

SpecTwice == InitTwice /\ [][NextTwice]_vars

-----------------------------------------------------------------------------
(* The rule engine run alone on one text *)

\* detectSpamGroupInvite(input) is called and returns.
RunRuleEngine ==
    /\ output = NoVerdict
    /\ caught = "none"
    /\ LET r == detectSpamGroupInvite(input, lastIndex)
       IN  /\ output' = r.result
           /\ lastIndex' = r.lastIndex
    /\ UNCHANGED <<env, CONFIG, checksThisMinute, handlers, admitted, input, caught>>

InitRules ==
    /\ env = EmptyEnv
    /\ CONFIG = configOf(env)
    /\ checksThisMinute = 0
    /\ lastIndex = 0
    /\ handlers = [h \in {1} |-> IdleHandler]
    /\ admitted = 0
    /\ input \in Texts
    /\ output = NoVerdict
    /\ caught = "none"

NextRules ==
    RunRuleEngine

SpecRules == InitRules /\ [][NextRules]_vars

-----------------------------------------------------------------------------
(* What the claims speak of, stated on the text itself *)

\* Whether term occurs in text when case is ignored.
containsIgnoreCase(text, term) ==
    \E i \in 0..(Len(text) - Len(term)) :
        \A j \in 1..Len(term) : lowerChar(text[i + j]) = lowerChar(term[j])

\* The high-confidence phrases that occur in text.
phrasesIn(text) ==
    {highConfidenceSpam[k] : k \in {n \in 1..Len(highConfidenceSpam) :
                                       containsIgnoreCase(text, highConfidenceSpam[n])}}

\* The distinct vocabulary terms that occur in text.
termsIn(text) ==
    {spamGroupKeywords[k] : k \in {n \in 1..Len(spamGroupKeywords) :
                                      containsIgnoreCase(text, spamGroupKeywords[n])}}

\* Whether text contains a group-invite link.
hasInviteLink(text) ==
    \E i \in 0..Len(text) : inviteMatchAt(text, i)

\* Whether some vocabulary term occurs in text more than once.
repeatsATerm(text) ==
    \E term \in termsIn(text) : Cardinality(occurrences(toLowerCase(text), term)) >= 2

\* The rule engine has returned its verdict on input.
Returned ==
    output # NoVerdict

IsSpamWith(verdict, confidence) ==
    verdict.isSpam = JsBool(TRUE) /\ verdict.confidence = JsNum(confidence)

NotSpam(verdict) ==
    verdict.isSpam = JsBool(FALSE) /\ verdict.confidence = JsNum(0)

-----------------------------------------------------------------------------
(* The rule engine: C6 to C9, under SpecRules *)

\* C6: a text that contains a high-confidence phrase, in any case, gets isSpam=true
\* with confidence 95 from detectSpamGroupInvite, whether or not it also holds an
\* invite link or vocabulary terms.
C6_PhraseGives95 ==
    (Returned /\ phrasesIn(input) # {}) => IsSpamWith(output, 95)

\* C6 witness: a text with a phrase, an invite link and two vocabulary terms has
\* been given 95.
C6_Witness ==
    /\ Returned
    /\ phrasesIn(input) # {}
    /\ hasInviteLink(input)
    /\ Cardinality(termsIn(input)) >= 2
    /\ IsSpamWith(output, 95)

\* C7: a text without a high-confidence phrase that holds an invite link gets 90
\* when at least 2 distinct vocabulary terms occur in it and 75 when exactly 1
\* does; a repeated term counts once.
C7_InviteWithTerms ==
    (Returned /\ phrasesIn(input) = {} /\ hasInviteLink(input)) =>
        /\ Cardinality(termsIn(input)) >= 2 => IsSpamWith(output, 90)
        /\ Cardinality(termsIn(input)) = 1 => IsSpamWith(output, 75)

\* C7 witness: a link with one vocabulary term that occurs twice has been given 75.
C7_Witness ==
    /\ Returned
    /\ phrasesIn(input) = {}
    /\ hasInviteLink(input)
    /\ Cardinality(termsIn(input)) = 1
    /\ repeatsATerm(input)
    /\ IsSpamWith(output, 75)

\* C8 as stated: the example text "Join my trading group https://chat.platform.com/
\* AbCdEfGhIj1234567890 crypto signal guaranteed profit" gets isSpam=true with
\* confidence 90.
C8_ExampleGives90 ==
    (Returned /\ input = TextJoinTrading) => IsSpamWith(output, 90)

\* C8 as amended: that text gets isSpam=true with confidence 95, for the
\* high-confidence phrase "join my trading group" it begins with.
C8_ExampleGives95 ==
    (Returned /\ input = TextJoinTrading) =>
        /\ IsSpamWith(output, 95)
        /\ output.reason = JsStr(ReasonHighConfidence \o highConfidenceSpam[1] \o Quote)

\* C8 witness: the rule engine has returned on the example text.
C8_Witness ==
    /\ Returned
    /\ input = TextJoinTrading
    /\ Cardinality(termsIn(input)) >= 2

\* C9: a text without a high-confidence phrase and without an invite link gets
\* isSpam=true with confidence 80 exactly when at least 3 distinct vocabulary terms
\* occur in it, and isSpam=false with confidence 0 otherwise, as does "Check out
\* this trading opportunity" with its 1 term.
C9_DensityWithoutLink ==
    (Returned /\ phrasesIn(input) = {} /\ ~hasInviteLink(input)) =>
        /\ IsSpamWith(output, 80) <=> Cardinality(termsIn(input)) >= 3
        /\ Cardinality(termsIn(input)) < 3 => NotSpam(output)
        /\ input = TextTradingOpportunity =>
               Cardinality(termsIn(input)) = 1 /\ NotSpam(output)

\* C9 witness: a text of exactly 3 distinct terms and no link has been given 80.
C9_Witness ==
    /\ Returned
    /\ phrasesIn(input) = {}
    /\ ~hasInviteLink(input)
    /\ Cardinality(termsIn(input)) = 3
    /\ IsSpamWith(output, 80)

-----------------------------------------------------------------------------
(* The classifier: C1 and C10, under SpecSeq *)

\* Whether some configured custom keyword occurs in text when case is ignored.
hasCustomKeyword(text) ==
    \E k \in 1..Len(CONFIG.customSpamKeywords) :
        containsIgnoreCase(text, CONFIG.customSpamKeywords[k])

\* Whether no rule of the rule engine applies to text.
noRuleMatches(text) ==
    /\ phrasesIn(text) = {}
    /\ hasInviteLink(text) => termsIn(text) = {}
    /\ Cardinality(termsIn(text)) < 3

\* Whether the AI layer is disabled: no active provider, or USE_AI=false.
aiDisabled ==
    getActiveProvider(env) = "null" \/ env.USE_AI = StrFalse

\* C1: a message whose text contains a configured custom keyword, in any case, is
\* given isSpam=true with confidence 100 whatever else it contains and whatever the
\* AI configuration and the rate counter are; it never reaches the rate gate or
\* the provider, and the verdict stays as it is while the message is handled.
C1_KeywordGives100 ==
    \A h \in DOMAIN handlers :
        (handlers[h].pc \notin {"idle", "getChat"} /\ hasCustomKeyword(handlers[h].body)) =>
            /\ handlers[h].pc # "ai"
            /\ handlers[h].gate = "none"
            /\ IsSpamWith(handlers[h].spamCheck, 100)

\* C1 witness: with AI enabled and the rate counter at its ceiling, a text with a
\* keyword in another case, a high-confidence phrase and an invite link has been
\* given 100.
C1_Witness ==
    \E h \in DOMAIN handlers :
        /\ handlers[h].pc = "spamCheck"
        /\ hasCustomKeyword(handlers[h].body)
        /\ phrasesIn(handlers[h].body) # {}
        /\ hasInviteLink(handlers[h].body)
        /\ CONFIG.useAI
        /\ checksThisMinute = MAX_CHECKS_PER_MINUTE
        /\ IsSpamWith(handlers[h].spamCheck, 100)

\* What isSpamMessage returns with AI disabled, up to the text of the reason for
\* a text no rule matches.
AiDisabledReturnsRuleVerdict(reasonOfNoMatch) ==
    aiDisabled =>
        /\ checksThisMinute = 0
        /\ \A h \in DOMAIN handlers :
               /\ handlers[h].pc # "ai"
               /\ handlers[h].gate = "none"
               /\ (handlers[h].pc = "spamCheck" /\ ~hasCustomKeyword(handlers[h].body)) =>
                      /\ handlers[h].spamCheck = detectSpamGroupInvite(handlers[h].body, 0).result
                      /\ noRuleMatches(handlers[h].body) =>
                             /\ NotSpam(handlers[h].spamCheck)
                             /\ handlers[h].spamCheck.reason = JsStr(reasonOfNoMatch)

\* C10 as stated: with AI disabled and no custom keyword matching, isSpamMessage
\* returns the rule engine's verdict, which for a text no rule matches is
\* isSpam=false, confidence 0, reason "no spam patterns detected"; no provider call
\* is made and the rate counter is not touched.
C10_ReasonInLowerCase ==
    AiDisabledReturnsRuleVerdict(
        <<"n","o"," ","s","p","a","m"," ","p","a","t","t","e","r","n","s"," ","d","e","t","e","c","t","e","d">>)

\* C10 as amended: the same, the reason being "No spam patterns detected".
C10_AiDisabledRuleVerdict ==
    AiDisabledReturnsRuleVerdict(
        <<"N","o"," ","s","p","a","m"," ","p","a","t","t","e","r","n","s"," ","d","e","t","e","c","t","e","d">>)

\* C10 witness: with both keys set and USE_AI=false, "Hey, did you see the game
\* last night?" has been given the negative rule verdict.
C10_Witness ==
    /\ env.USE_AI = StrFalse
    /\ hasKey(env.ANTHROPIC_API_KEY)
    /\ \E h \in DOMAIN handlers :
           /\ handlers[h].pc = "spamCheck"
           /\ handlers[h].body = TextGame
           /\ noRuleMatches(handlers[h].body)
           /\ NotSpam(handlers[h].spamCheck)

-----------------------------------------------------------------------------
(* The rate gate: C2, under Spec *)

\* C2: within one window (since the last timer reset) at most
\* MAX_CHECKS_PER_MINUTE calls are admitted and the counter counts them; a request
\* to the gate is denied exactly when that many have been admitted, and is
\* admitted otherwise, so again from 0 after a reset.
C2_RateGate ==
    /\ [](admitted <= MAX_CHECKS_PER_MINUTE /\ checksThisMinute = admitted)
    /\ [][\A h \in DOMAIN handlers :
              (handlers[h].gate = "none" /\ handlers'[h].gate # "none") =>
                  /\ handlers'[h].gate = "denied" <=> admitted = MAX_CHECKS_PER_MINUTE
                  /\ handlers'[h].gate = "admitted" =>
                         handlers'[h].pc = "ai" /\ admitted' = admitted + 1
                  /\ handlers'[h].gate = "denied" =>
                         handlers'[h].pc # "ai" /\ admitted' = admitted]_vars
    /\ [][admitted' < admitted => admitted' = 0 /\ checksThisMinute' = 0]_vars

\* C2 witness: 30 calls were admitted in this window and a further request has
\* been denied.
C2_Witness ==
    /\ admitted = MAX_CHECKS_PER_MINUTE
    /\ \E h \in DOMAIN handlers : handlers[h].gate = "denied" /\ handlers[h].pc = "spamCheck"

-----------------------------------------------------------------------------
(* The delete request: C3 to C5 *)

\* C3: a delete is requested only after the admin check of that invocation was
\* made and returned true.
C3_DeleteOnlyAsAdmin ==
    \A h \in DOMAIN handlers :
        handlers[h].pc = "delete" => handlers[h].isAdmin = "true"

\* C3 witness: a delete has been requested after an admin check that returned true.
C3_Witness ==
    \E h \in DOMAIN handlers :
        handlers[h].pc = "delete" /\ handlers[h].isAdmin = "true"

\* C4: a delete is requested only for a verdict with isSpam=true, after an admin
\* check that returned true, and with dryRun false; with dryRun true no delete is
\* ever requested.
C4_DeleteOnlySpamAdminLive ==
    \A h \in DOMAIN handlers :
        handlers[h].pc = "delete" =>
            /\ handlers[h].spamCheck.isSpam = JsBool(TRUE)
            /\ handlers[h].isAdmin = "true"
            /\ ~CONFIG.dryRun

\* C4 witness: in live mode a delete has been requested while another spam
\* message is at its admin check.
C4_Witness ==
    /\ ~CONFIG.dryRun
    /\ \E h \in DOMAIN handlers :
           handlers[h].pc = "delete" /\ handlers[h].spamCheck.isSpam = JsBool(TRUE)
    /\ \E h \in DOMAIN handlers : handlers[h].pc = "admin"

\* C5: with DRY_RUN not set the bot runs in dry-run mode, so no delete is
\* requested.
C5_DryRunByDefault ==
    env.DRY_RUN = Undefined =>
        \A h \in DOMAIN handlers : handlers[h].pc # "delete"

-----------------------------------------------------------------------------
(* The AI layer: C11 to C15, under SpecSeq *)

\* isSpamMessage has returned to the invocation h of handleMessage.
hasVerdict(h) ==
    handlers[h].pc \in {"spamCheck", "admin", "delete"}

\* The provider's reply has arrived at h.
replyArrived(h) ==
    hasVerdict(h) /\ handlers[h].path \in {"noJson", "badJson", "parsed"}

\* Whether the value v, taken as a number, is at least n.
atLeast(v, n) ==
    ~toNumber(v).nan /\ toNumber(v).num >= n

\* C11: for every reply that was parsed, the verdict has isSpam=true exactly when
\* the reply's isSpam holds and its confidence is at least 70, so a reply of
\* isSpam=true with confidence 65 gives isSpam=false and one with confidence 70
\* gives isSpam=true; the reply's confidence and reason are returned as they are.
C11_AiThreshold ==
    \A h \in DOMAIN handlers :
        (hasVerdict(h) /\ handlers[h].path = "parsed") =>
            LET reply == jsonMatch(handlers[h].content)
                isSpam == property(reply, "isSpam")
                confidence == property(reply, "confidence")
            IN  /\ handlers[h].spamCheck.isSpam = JsBool(TRUE) <=>
                       (truthy(isSpam) /\ atLeast(confidence, 70))
                /\ (isSpam.type = "boolean" /\ confidence.type = "number") =>
                       handlers[h].spamCheck.isSpam =
                           JsBool(isSpam.bool /\ confidence.num >= 70)
                /\ handlers[h].spamCheck.confidence = confidence
                /\ handlers[h].spamCheck.reason = property(reply, "reason")

\* C11 witness: a reply of isSpam=true with confidence 65 has been turned into
\* isSpam=false with confidence 65.
C11_Witness ==
    \E h \in DOMAIN handlers :
        /\ handlers[h].pc = "spamCheck"
        /\ handlers[h].path = "parsed"
        /\ handlers[h].content = SpamReply(65)
        /\ handlers[h].spamCheck.isSpam = JsBool(FALSE)
        /\ handlers[h].spamCheck.confidence = JsNum(65)

\* Whether content holds a JSON object somewhere: an opening brace, members only,
\* a closing brace.
hasJsonObject(content) ==
    \E i, j \in 1..Len(content) :
        /\ i < j
        /\ content[i] = LBrace
        /\ content[j] = RBrace
        /\ \A k \in (i + 1)..(j - 1) : content[k].kind = "member"

\* What becomes of a reply that holds no JSON object, up to the text of the
\* reason: the provider call ends with isSpamMessage returning isSpam=false,
\* confidence 0 and that reason, and the handler goes on neither to the admin
\* check nor to a delete.
ReplyWithoutObject(reasonText) ==
    \A h \in DOMAIN handlers :
        (replyArrived(h) /\ ~hasJsonObject(handlers[h].content)) =>
            /\ handlers[h].spamCheck = Verdict(FALSE, 0, reasonText)
            /\ handlers[h].pc = "spamCheck"

\* A provider call that ends with a reply holding no JSON object ends with
\* isSpamMessage returning to handleMessage.
ReplyWithoutObjectReturns ==
    \A h \in DOMAIN handlers :
        (/\ handlers[h].pc = "ai"
         /\ handlers'[h].pc # "ai"
         /\ handlers'[h].path # "apiError"
         /\ ~hasJsonObject(handlers'[h].content)) =>
            handlers'[h].pc = "spamCheck"

\* C12 as stated: a reply that holds no parseable JSON object makes isSpamMessage
\* return isSpam=false, confidence 0, reason "parse error"; it does not throw, and
\* the message is not deleted.
C12_ReasonInLowerCase ==
    /\ [](ReplyWithoutObject(<<"p","a","r","s","e"," ","e","r","r","o","r">>))
    /\ [][ReplyWithoutObjectReturns]_vars

\* C12 as amended: the same, the reason being "Parse error".
C12_NoObjectParseError ==
    /\ [](ReplyWithoutObject(<<"P","a","r","s","e"," ","e","r","r","o","r">>))
    /\ [][ReplyWithoutObjectReturns]_vars

\* C12 witness: a reply of braces around text that is no JSON has been answered
\* with the negative verdict.
C12_Witness ==
    \E h \in DOMAIN handlers :
        /\ handlers[h].pc = "spamCheck"
        /\ handlers[h].path = "badJson"
        /\ handlers[h].content = <<LBrace, Prose, RBrace>>
        /\ ~hasJsonObject(handlers[h].content)
        /\ NotSpam(handlers[h].spamCheck)

\* What becomes of a provider call that fails, up to the text of the reason:
\* isSpamMessage returns isSpam=false, confidence 0 and that reason to
\* handleMessage, which goes on neither to the admin check nor to a delete.
ProviderFailure(reasonText) ==
    \A h \in DOMAIN handlers :
        handlers[h].path = "apiError" =>
            /\ handlers[h].spamCheck = Verdict(FALSE, 0, reasonText)
            /\ handlers[h].pc = "spamCheck"

\* A provider call ends, however it ends, with isSpamMessage returning to
\* handleMessage.
ProviderCallReturns ==
    \A h \in DOMAIN handlers :
        (handlers[h].pc = "ai" /\ handlers'[h].pc # "ai") =>
            handlers'[h].pc = "spamCheck"

\* C13 as stated: when the provider call fails, isSpamMessage catches the failure
\* and returns isSpam=false, confidence 0, reason "provider error"; the failure
\* does not leave isSpamMessage and leads to no deletion.
C13_ReasonProviderError ==
    /\ [](ProviderFailure(<<"p","r","o","v","i","d","e","r"," ","e","r","r","o","r">>))
    /\ [][ProviderCallReturns]_vars

\* C13 as amended: the same, the reason being "API error".
C13_FailureApiError ==
    /\ [](ProviderFailure(<<"A","P","I"," ","e","r","r","o","r">>))
    /\ [][ProviderCallReturns]_vars

\* C13 witness: a provider call has failed with the counter at its ceiling and
\* isSpamMessage has returned the negative verdict.
C13_Witness ==
    \E h \in DOMAIN handlers :
        /\ handlers[h].pc = "spamCheck"
        /\ handlers[h].path = "apiError"
        /\ handlers[h].gate = "admitted"
        /\ checksThisMinute = MAX_CHECKS_PER_MINUTE
        /\ NotSpam(handlers[h].spamCheck)

\* C14: every verdict isSpamMessage returns has a confidence that is an integer
\* from 0 to 100.
C14_ConfidenceInRange ==
    \A h \in DOMAIN handlers :
        hasVerdict(h) =>
            /\ handlers[h].spamCheck.confidence.type = "number"
            /\ handlers[h].spamCheck.confidence.num \in 0..100

\* C15: a verdict with isSpam=true, and so the verdict of every message a delete
\* is requested for, comes from the keyword layer with confidence 100, from the
\* rule engine with confidence at least 75 or from a parsed reply with confidence
\* at least 70; none has a confidence below 70.
C15_SpamOnlyAboveThreshold ==
    \A h \in DOMAIN handlers :
        (hasVerdict(h) /\ (truthy(handlers[h].spamCheck.isSpam) \/ handlers[h].pc = "delete")) =>
            /\ handlers[h].path \in {"keyword", "rule", "parsed"}
            /\ handlers[h].path = "keyword" => handlers[h].spamCheck.confidence = JsNum(100)
            /\ handlers[h].path = "rule" => atLeast(handlers[h].spamCheck.confidence, 75)
            /\ handlers[h].path = "parsed" => atLeast(handlers[h].spamCheck.confidence, 70)
            /\ ~toNumber(handlers[h].spamCheck.confidence).nan
            /\ ~(toNumber(handlers[h].spamCheck.confidence).num < 70)

\* C15 witness: a delete has been requested on the verdict of a reply whose
\* confidence is exactly 70.
C15_Witness ==
    \E h \in DOMAIN handlers :
        /\ handlers[h].pc = "delete"
        /\ handlers[h].path = "parsed"
        /\ handlers[h].spamCheck.confidence = JsNum(70)

-----------------------------------------------------------------------------
(* Idempotence: C16, under SpecTwice *)

\* Whether the AI layer did the same for the calls h and k: the gate gave the
\* same answer, and the provider the same reply or a failure both times.
sameAiOutcome(h, k) ==
    /\ handlers[h].gate = handlers[k].gate
    /\ (handlers[h].path = "apiError") = (handlers[k].path = "apiError")
    /\ (handlers[h].path \in {"noJson", "badJson", "parsed"})
           = (handlers[k].path \in {"noJson", "badJson", "parsed"})
    /\ handlers[h].content = handlers[k].content

\* C16: two calls of isSpamMessage with the same text, sender and group under one
\* configuration, for which the AI layer was not reached or did the same,
\* return the same verdict; groupInviteRegex.lastIndex is 0 between the calls, so
\* no call of detectSpamGroupInvite starts its search where the one before ended.
C16_SameInputSameVerdict ==
    /\ lastIndex = 0
    /\ \A h, k \in DOMAIN handlers :
           (/\ handlers[h].pc = "spamCheck"
            /\ handlers[k].pc = "spamCheck"
            /\ sameAiOutcome(h, k)) =>
               handlers[h].spamCheck = handlers[k].spamCheck

\* C16 witness: a text with an invite link and one vocabulary term has been
\* classified twice and given confidence 75 both times.
C16_Witness ==
    /\ hasInviteLink(input)
    /\ Cardinality(termsIn(input)) = 1
    /\ handlers[1].pc = "spamCheck"
    /\ handlers[2].pc = "spamCheck"
    /\ IsSpamWith(handlers[1].spamCheck, 75)
    /\ IsSpamWith(handlers[2].spamCheck, 75)

-----------------------------------------------------------------------------
(* Provider selection at startup: C17, under SpecSeq *)

\* The provider that comes first among those whose key is set, "null" if none is.
firstAvailable ==
    IF hasKey(env.ANTHROPIC_API_KEY) THEN "anthropic"
    ELSE IF hasKey(env.GEMINI_API_KEY) THEN "gemini"
    ELSE "null"

\* C17 as stated: the provider AI_PROVIDER names is selected if its key is set;
\* otherwise the first available one is, Anthropic before Gemini; AI is disabled
\* only when no key is set.
C17_PreferredElseFirstAvailable ==
    /\ CONFIG.aiProvider =
           IF AI_PROVIDER(env) = StrAnthropic /\ hasKey(env.ANTHROPIC_API_KEY) THEN "anthropic"
           ELSE IF AI_PROVIDER(env) = StrGemini /\ hasKey(env.GEMINI_API_KEY) THEN "gemini"
           ELSE firstAvailable
    /\ CONFIG.aiProvider = "null" =>
           ~hasKey(env.ANTHROPIC_API_KEY) /\ ~hasKey(env.GEMINI_API_KEY)

\* C17 as amended: the provider AI_PROVIDER names is selected if its key is set;
\* with AI_PROVIDER auto or not set the first available one is, Anthropic before
\* Gemini; in every other case no provider is selected and AI is disabled, also
\* when the key of the provider that was not named is set.
C17_PreferredOrAutomatic ==
    /\ AI_PROVIDER(env) = StrAnthropic =>
           CONFIG.aiProvider = IF hasKey(env.ANTHROPIC_API_KEY) THEN "anthropic" ELSE "null"
    /\ AI_PROVIDER(env) = StrGemini =>
           CONFIG.aiProvider = IF hasKey(env.GEMINI_API_KEY) THEN "gemini" ELSE "null"
    /\ AI_PROVIDER(env) = StrAuto => CONFIG.aiProvider = firstAvailable
    /\ AI_PROVIDER(env) \notin {StrAnthropic, StrGemini, StrAuto} => CONFIG.aiProvider = "null"
    /\ CONFIG.aiProvider = "null" =>
           /\ ~CONFIG.useAI
           /\ \A h \in DOMAIN handlers : handlers[h].pc # "ai"

\* C17 witness: AI_PROVIDER names Anthropic, only the Gemini key is set, no
\* provider is selected, and a message has been classified by the rules alone.
C17_Witness ==
    /\ AI_PROVIDER(env) = StrAnthropic
    /\ ~hasKey(env.ANTHROPIC_API_KEY)
    /\ hasKey(env.GEMINI_API_KEY)
    /\ CONFIG.aiProvider = "null"
    /\ \E h \in DOMAIN handlers : handlers[h].pc = "spamCheck" /\ handlers[h].path = "aiOff"

-----------------------------------------------------------------------------
(* The filters of handleMessage: C18, under SpecSeq *)

\* Whether the message of the invocation h is one to classify: sent to a group
\* that is monitored, by someone else, with a text that is not blank.
eligible(h) ==
    /\ handlers[h].chat.isGroup
    /\ \/ CONFIG.monitoredGroups = <<>>
       \/ \E i \in 1..Len(CONFIG.monitoredGroups) :
              CONFIG.monitoredGroups[i] = handlers[h].chat.id
    /\ ~handlers[h].fromMe
    /\ \E i \in 1..Len(handlers[h].body) : handlers[h].body[i] \notin Whitespace

\* The invocation h, waiting for getChat() with a message that is not to be
\* classified, returns at its next step and leaves the rate counter and the regex
\* as they are.
FilteredOut ==
    \A h \in DOMAIN handlers :
        (handlers[h].pc = "getChat" /\ ~eligible(h) /\ handlers'[h] # handlers[h]) =>
            /\ handlers'[h] = IdleHandler
            /\ UNCHANGED <<checksThisMinute, admitted, lastIndex>>

\* C18: handleMessage classifies a message only when its chat is a group that is
\* monitored (monitoredGroups empty or holding the chat's id), the message is
\* not the bot's own and its text is not blank; for any other message there is no
\* classification, no change of the rate counter, no admin check and no delete.
C18_ClassifiesOnlyEligible ==
    /\ [](\A h \in DOMAIN handlers :
              handlers[h].pc \in {"ai", "spamCheck", "admin", "delete"} => eligible(h))
    /\ [][FilteredOut]_vars

\* C18 witness: with the counter above 0, handleMessage has been called with the
\* bot's own message, sent to a group, whose text holds a high-confidence phrase.
C18_Witness ==
    /\ checksThisMinute > 0
    /\ \E h \in DOMAIN handlers :
           /\ handlers[h].pc = "getChat"
           /\ handlers[h].fromMe
           /\ handlers[h].chat.isGroup
           /\ phrasesIn(handlers[h].body) # {}
           /\ ~eligible(h)

-----------------------------------------------------------------------------
(* The counter under concurrent handlers: C19, under Spec *)

\* The step that admits a call of the invocation h tests the counter and
\* increments it.
AdmitsAtomically ==
    \A h \in DOMAIN handlers :
        (handlers[h].gate # "admitted" /\ handlers'[h].gate = "admitted") =>
            /\ checksThisMinute < MAX_CHECKS_PER_MINUTE
            /\ checksThisMinute' = checksThisMinute + 1

\* C19: with invocations of handleMessage in flight together and the timer
\* resetting, the counter is from 0 to 30 in every state, at most 30 calls are
\* admitted between two resets, and the step that admits a call is the one that
\* found the counter below 30 and incremented it.
C19_CounterBounded ==
    /\ [](/\ checksThisMinute \in 0..MAX_CHECKS_PER_MINUTE
          /\ admitted \in 0..MAX_CHECKS_PER_MINUTE)
    /\ [][AdmitsAtomically]_vars

\* C19 witness: the counter is at 30 while every invocation is waiting for the
\* provider, each with a call that was admitted.
C19_Witness ==
    /\ checksThisMinute = MAX_CHECKS_PER_MINUTE
    /\ \A h \in DOMAIN handlers : handlers[h].pc = "ai" /\ handlers[h].gate = "admitted"

-----------------------------------------------------------------------------
(* The order of the layers: C20, under SpecSeq *)

\* The message bodies that no rule of the rule engine matches.
bodiesNoRuleMatches ==
    {text \in Bodies \cup ConcurrentBodies : noRuleMatches(text)}

\* A provider call was issued for the message of the invocation h.
providerCalled(h) ==
    \/ handlers[h].pc = "ai"
    \/ hasVerdict(h) /\ handlers[h].path \in {"noJson", "badJson", "parsed", "apiError"}

\* C20: a provider call is issued for a message only when no custom keyword
\* occurs in it, no rule of the rule engine matches it, AI is enabled and the
\* rate gate admitted the call; a message that the keyword layer or the rule
\* engine decides causes no provider call and no request to the gate.
C20_CascadeOrder ==
    \A h \in DOMAIN handlers :
        /\ providerCalled(h) =>
               /\ ~hasCustomKeyword(handlers[h].body)
               /\ handlers[h].body \in bodiesNoRuleMatches
               /\ ~aiDisabled
               /\ handlers[h].gate = "admitted"
        /\ (hasVerdict(h) /\ (hasCustomKeyword(handlers[h].body)
                              \/ handlers[h].body \notin bodiesNoRuleMatches)) =>
               /\ handlers[h].path \in {"keyword", "rule"}
               /\ handlers[h].gate = "none"
               /\ handlers[h].content = <<>>

\* C20 witness: with custom keywords configured, a provider call has been issued
\* for a text that holds a vocabulary term and matches no keyword and no rule.
C20_Witness ==
    \E h \in DOMAIN handlers :
        /\ handlers[h].pc = "ai"
        /\ CONFIG.customSpamKeywords # <<>>
        /\ termsIn(handlers[h].body) # {}
        /\ noRuleMatches(handlers[h].body)
        /\ ~hasCustomKeyword(handlers[h].body)

-----------------------------------------------------------------------------
(* What changes the counter: C21, under SpecSeq *)

\* The invocations whose call the rate gate admits in this step.
admittedInStep ==
    {h \in DOMAIN handlers :
        handlers[h].gate # "admitted" /\ handlers'[h].gate = "admitted"}

\* The invocations whose classification returns in this step from the keyword
\* loop, the rule engine, the AI-disabled check or the gate's denial.
endsBeforeAiInStep ==
    {h \in DOMAIN handlers :
        /\ handlers[h].pc \in {"idle", "getChat"}
        /\ handlers'[h].pc = "spamCheck"
        /\ handlers'[h].path \in {"keyword", "rule", "aiOff", "rateLimited"}}

\* A step that admits a call adds 1 to the counter; any other step leaves the
\* counter as it is or sets it to 0, and one that sets it to 0 from another
\* value changes nothing else of the program's state; a step in which a
\* classification returns before the AI layer leaves the counter as it is.
CounterStep ==
    /\ admittedInStep # {} => checksThisMinute' = checksThisMinute + 1
    /\ admittedInStep = {} =>
           \/ checksThisMinute' = checksThisMinute
           \/ /\ checksThisMinute' = 0
              /\ UNCHANGED <<env, CONFIG, lastIndex, handlers, input, output, caught>>
    /\ endsBeforeAiInStep # {} => checksThisMinute' = checksThisMinute

\* C21: the counter changes only by 1 up, in the step that admits a
\* classification to the AI layer, and to 0, in the timer's reset, which changes
\* nothing else; a classification that ends at the keyword layer, the rule
\* engine, the AI-disabled check or a denial leaves it unchanged.
C21_CounterFrame ==
    [][CounterStep]_vars

\* C21 witness: after 30 admissions the counter is at 30 and a further
\* classification has ended with the gate's denial.
C21_Witness ==
    \E h \in DOMAIN handlers :
        /\ handlers[h].pc = "spamCheck"
        /\ handlers[h].path = "rateLimited"
        /\ checksThisMinute = MAX_CHECKS_PER_MINUTE
        /\ admitted = MAX_CHECKS_PER_MINUTE

-----------------------------------------------------------------------------
(* A denial of the rate gate: C22, under SpecSeq *)

\* The character U+2014 (em dash), written by its code point.
EmDash ==
    "U+2014"

\* What a denied classification returns, up to the text of the reason:
\* isSpam=false, confidence 0 and that reason, no provider call having been
\* made for the message; handleMessage goes on neither to the admin check nor
\* to a delete.
RateDenied(reasonText) ==
    \A h \in DOMAIN handlers :
        handlers[h].path = "rateLimited" =>
            /\ handlers[h].spamCheck = Verdict(FALSE, 0, reasonText)
            /\ handlers[h].pc = "spamCheck"
            /\ handlers[h].gate = "denied"
            /\ handlers[h].content = <<>>

\* The denial is returned in the step that finds the counter at the ceiling,
\* without a change of the counter, and the invocation of a denied
\* classification does nothing further but return: it is not taken up again,
\* by a reset or otherwise.
DeniedIsDropped ==
    \A h \in DOMAIN handlers :
        /\ (handlers[h].path # "rateLimited" /\ handlers'[h].path = "rateLimited") =>
               /\ handlers[h].pc \in {"idle", "getChat"}
               /\ handlers'[h].pc = "spamCheck"
               /\ checksThisMinute >= MAX_CHECKS_PER_MINUTE
               /\ checksThisMinute' = checksThisMinute
        /\ handlers[h].path = "rateLimited" =>
               handlers'[h] \in {handlers[h], IdleHandler}

\* C22 as stated: a classification the rate gate denies returns isSpam=false,
\* confidence 0, reason "rate limited (em dash) rule-based only" at once; the
\* call is dropped, not queued or retried after the reset, no provider call is
\* made for the message, and the message is not deleted.
C22_ReasonWithDash ==
    /\ [](RateDenied(<<"r","a","t","e"," ","l","i","m","i","t","e","d"," ",EmDash," ",
                       "r","u","l","e","-","b","a","s","e","d"," ","o","n","l","y">>))
    /\ [][DeniedIsDropped]_vars

\* C22 as amended: the same, the reason being "Rate limited - using rule-based
\* only".
C22_DeniedIsDropped ==
    /\ [](RateDenied(<<"R","a","t","e"," ","l","i","m","i","t","e","d"," ","-"," ",
                       "u","s","i","n","g"," ",
                       "r","u","l","e","-","b","a","s","e","d"," ","o","n","l","y">>))
    /\ [][DeniedIsDropped]_vars

\* C22 witness: a classification was denied, the timer has reset the counter
\* since, and the denied classification still stands as returned.
C22_Witness ==
    \E h \in DOMAIN handlers :
        /\ handlers[h].pc = "spamCheck"
        /\ handlers[h].gate = "denied"
        /\ handlers[h].path = "rateLimited"
        /\ NotSpam(handlers[h].spamCheck)
        /\ checksThisMinute = 0

-----------------------------------------------------------------------------
(* A provider that never answers: C23, under SpecSeqFair *)

\* C23 as stated: every classification that starts returns a verdict in the
\* end, a provider call that hangs being timed out: an invocation that waits for
\* the provider comes to hold a verdict.
C23_ClassificationReturns ==
    (handlers[1].pc = "ai") ~> hasVerdict(1)

-----------------------------------------------------------------------------
(* Failures inside handleMessage: C24, under SpecSeq *)

\* The places at which an invocation of handleMessage is: not running, or
\* suspended at one of its awaits. There is no place for an invocation that
\* ended with an exception that nothing caught.
HandlerPlaces ==
    {"idle", "getChat", "ai", "spamCheck", "admin", "delete"}

\* A step in which a catch of handleMessage is entered is the return of an
\* invocation that waited for getChat() or for the delete; the next step of an
\* invocation that waited for the delete is its return, whatever the outcome,
\* and one whose provider call failed does nothing further but return.
FailureIsCaught ==
    /\ caught' \notin {caught, "none"} =>
           \E h \in DOMAIN handlers :
               /\ \/ handlers[h].pc = "getChat" /\ caught' = "error"
                  \/ handlers[h].pc = "delete" /\ caught' = "deleteError"
               /\ handlers'[h] = IdleHandler
    /\ \A h \in DOMAIN handlers :
           /\ (handlers[h].pc = "delete"
               /\ (handlers'[h] # handlers[h] \/ caught' # caught)) =>
                  handlers'[h] = IdleHandler
           /\ (handlers[h].path = "apiError" /\ handlers'[h] # handlers[h]) =>
                  handlers'[h] = IdleHandler

\* C24: no failure inside handleMessage leaves it uncaught: a failure of
\* getChat, of the classification, of the admin check or of the delete request
\* is caught and the invocation returns; whatever failed before, handleMessage
\* can be called with the next message; a failed delete is logged and the
\* delete is not requested again.
C24_FailuresAreCaught ==
    /\ [](\A h \in DOMAIN handlers :
              /\ handlers[h].pc \in HandlerPlaces
              /\ handlers[h].pc = "idle" =>
                     ENABLED (\E message \in Messages : MessageCreate(h, message)))
    /\ caught \in {"none", "error", "deleteError"}
    /\ [][FailureIsCaught]_vars

\* C24 witness: a delete request has failed and was logged, the invocation has
\* returned, and handleMessage can be called with the next message.
C24_Witness ==
    /\ caught = "deleteError"
    /\ \E h \in DOMAIN handlers :
           /\ handlers[h] = IdleHandler
           /\ ENABLED (\E message \in Messages : MessageCreate(h, message))

-----------------------------------------------------------------------------
(* Messages handled concurrently: C25, under Spec *)

\* The verdict of the classification of the invocation h as its own message,
\* the configuration, the gate's answer and the provider's answer give it,
\* whatever the other invocations do or did.
ownVerdict(h) ==
    CASE handlers[h].path = "rateLimited" -> Verdict(FALSE, 0, ReasonRateLimited)
      [] handlers[h].path = "apiError" -> Verdict(FALSE, 0, ReasonApiError)
      [] handlers[h].path \in {"noJson", "badJson", "parsed"} ->
             parseReply(handlers[h].content)
      [] OTHER -> IF isSpamMessage(handlers[h].body, CONFIG, 0, 0).kind = "return"
                  THEN isSpamMessage(handlers[h].body, CONFIG, 0, 0).verdict
                  ELSE detectSpamGroupInvite(handlers[h].body, 0).result

\* An invocation is suspended, or holds a verdict with isSpam true.
suspendedOrSpam(h) ==
    \/ handlers[h].pc \in {"ai", "admin", "delete"}
    \/ hasVerdict(h) /\ truthy(handlers[h].spamCheck.isSpam)

\* C25: while the invocation for one message is suspended at the provider
\* call, the admin check or the delete, or holds a spam verdict, handleMessage
\* can be called with another message and runs to its verdict or its own
\* provider call, whose answer it can take; and the verdict of every
\* invocation is the one its own message, the gate and the provider give it.
C25_MessagesIndependent ==
    \A h, k \in DOMAIN handlers :
        (h # k /\ suspendedOrSpam(h)) =>
            /\ handlers[k].pc = "idle" =>
                   ENABLED (\E message \in ConcurrentMessages :
                                HandleMessage(k, message, TRUE))
            /\ handlers[k].pc = "ai" =>
                   ENABLED (\E content \in ConcurrentReplies : ProviderReplies(k, content))
            /\ handlers[k].pc = "spamCheck" => ENABLED SpamCheckReturns(k)
            /\ hasVerdict(k) => handlers[k].spamCheck = ownVerdict(k)

\* C25 witness: one invocation waits for its delete with a spam verdict while
\* another holds the negative verdict made of its own provider's reply.
C25_Witness ==
    \E h, k \in DOMAIN handlers :
        /\ h # k
        /\ handlers[h].pc = "delete"
        /\ truthy(handlers[h].spamCheck.isSpam)
        /\ handlers[k].pc = "spamCheck"
        /\ handlers[k].path = "noJson"
        /\ NotSpam(handlers[k].spamCheck)

-----------------------------------------------------------------------------
(* The shape of the reply's object: C26, under SpecSeq *)

\* Whether the object text has the shape of a verdict: isSpam a boolean,
\* confidence a number from 0 to 100, a reason.
hasVerdictShape(text) ==
    /\ property(text, "isSpam").type = "boolean"
    /\ property(text, "confidence").type = "number"
    /\ property(text, "confidence").num \in 0..100
    /\ property(text, "reason").type # "undefined"

\* Whether a verdict is isSpam=false, confidence 0, reason "parse error", the
\* case of the reason's letters left aside.
isParseErrorVerdict(verdict) ==
    /\ verdict.isSpam = JsBool(FALSE)
    /\ verdict.confidence = JsNum(0)
    /\ verdict.reason.type = "string"
    /\ toLowerCase(verdict.reason.str) = <<"p","a","r","s","e"," ","e","r","r","o","r">>

\* C26 as stated: a reply whose JSON parses but has not the shape of a verdict
\* (isSpam not a boolean, confidence missing or not a number from 0 to 100, or
\* reason missing) gives isSpam=false, confidence 0, reason "parse error", as a
\* reply that does not parse does.
C26_MisshapenIsParseError ==
    \A h \in DOMAIN handlers :
        (/\ replyArrived(h)
         /\ handlers[h].path = "parsed"
         /\ ~hasVerdictShape(jsonMatch(handlers[h].content))) =>
            isParseErrorVerdict(handlers[h].spamCheck)

-----------------------------------------------------------------------------
(* A verdict inside wrapper text: C27, under SpecSeq *)

\* The number of opening braces less the number of closing braces in
\* content[i..j].
depth(content, i, j) ==
    Cardinality({m \in i..j : content[m] = LBrace})
        - Cardinality({m \in i..j : content[m] = RBrace})

\* The first balanced region of content: from its first opening brace to the
\* closing brace that matches it; <<>> if there is none.
firstBalanced(content) ==
    LET opens == {i \in 1..Len(content) : content[i] = LBrace}
    IN  IF opens = {} THEN <<>>
        ELSE LET first == CHOOSE i \in opens : \A k \in opens : i <= k
                 ends == {j \in first..Len(content) : depth(content, first, j) = 0}
             IN  IF ends = {} THEN <<>>
                 ELSE SubSeq(content, first, CHOOSE j \in ends : \A k \in ends : j <= k)

\* Whether content is one verdict object inside wrapper text: its first
\* balanced region is an object that parses and has the shape of a verdict.
isWrappedVerdict(content) ==
    /\ firstBalanced(content) # <<>>
    /\ jsonParses(firstBalanced(content))
    /\ hasVerdictShape(firstBalanced(content))

\* C27 as stated: of a reply that is one verdict object inside wrapper text,
\* before it, after it or both, with further braces in it or not, the
\* classifier takes the first balanced region and returns the verdict parsed
\* from it.
C27_FirstBalancedRegion ==
    \A h \in DOMAIN handlers :
        (replyArrived(h) /\ isWrappedVerdict(handlers[h].content)) =>
            /\ handlers[h].path = "parsed"
            /\ handlers[h].spamCheck = parseReply(firstBalanced(handlers[h].content))

====
